---- MODULE Spec2Model ----
(***************************************************************************)
(* conflict-bot: one run of main() of the latest variant of the action     *)
(* (src/unnamed/part_001), with the git checkout and the hosting API as    *)
(* the environment.  Every execSync and every API call either succeeds or  *)
(* throws; a ref, a remote or a merge state changes only when the command  *)
(* that changes it succeeds.                                               *)
(***************************************************************************)
EXTENDS Integers, Sequences, FiniteSets, TLC

\* ------------------------------------------------------------- bounds
\* Number of open pull requests, besides the subject, that the hosting
\* API lists.
MaxOthers == 2
MaxLines == 3
MaxNumbers == 4

\* ------------------------------------------------- the subject's payload
pullRequestNumber == 1
pullRequestAuthor == "alice"
pullRequestBranch == "feat"
mainBranch == "main"
headRepo == "alice/app"
excludedFiles == <<"go.mod", "go.sum", "vendor/">>

\* --------------------------------------------------------- JS helpers
\* String.prototype.startsWith
StartsWith(s, p) == Len(s) >= Len(p) /\ SubSeq(s, 1, Len(p)) = p

\* String.prototype.includes
Includes(s, p) ==
  \E i \in 1..(Len(s) - Len(p) + 1) : SubSeq(s, i, i + Len(p) - 1) = p

Range(s) == {s[i] : i \in 1..Len(s)}

\* Array.prototype.includes
Has(s, x) == \E i \in 1..Len(s) : s[i] = x

\* Array.prototype.indexOf, 0-based, -1 when absent
IndexOf(s, x) ==
  IF Has(s, x) THEN (CHOOSE i \in 1..Len(s) :
                       s[i] = x /\ \A j \in 1..(i - 1) : s[j] # x) - 1
  ELSE -1

\* [...new Set(array)]: the first occurrence of each element, in order
RECURSIVE Dedupe(_)
Dedupe(s) ==
  IF s = <<>> THEN <<>>
  ELSE LET front == Dedupe(SubSeq(s, 1, Len(s) - 1))
           last == s[Len(s)]
       IN IF Has(front, last) THEN front ELSE Append(front, last)

\* The name of the temporary ref a branch is staged into.
TmpRef(name) == "refs/remotes/origin/tmp_" \o name

ignoreFile(filename) ==
  \E k \in 1..Len(excludedFiles) : Includes(filename, excludedFiles[k])

\* allFiles.map(filename).filter(!ignoreFile)
FilterIgnored(files) == SelectSeq(files, LAMBDA f : ~ignoreFile(f))

\* A faulty overlap that keeps every file of the first list.
OverlappingKeepsAll(mine, theirs) == SelectSeq(mine, LAMBDA f : TRUE)

\* pullRequestFiles.filter((file) => otherPullRequestFiles.includes(file))
Overlapping(mine, theirs) == SelectSeq(mine, LAMBDA f : Has(theirs, f))

\* A faulty getAllReviewers that lacks the outstanding review requests.
AllReviewersSubmittedOnly(reviews, requested) == Range(reviews)

\* new Set(viewed_reviewers.concat(req_reviewers))
AllReviewers(reviews, requested) == Range(reviews \o requested)

\* ------------------------------------------- conflict line recovery
\* extractConflictingLineNumbers (block-anchor variant), on the lines of
\* the conflicted working-tree file and of the file as `git show` prints
\* it for the candidate's temporary ref.
RECURSIVE ExtractFrom(_, _, _, _, _, _)
ExtractFrom(conflictFile, normalFile, i, oursBlock, inOursBlock, conflictLines) ==
  IF i > Len(conflictFile) THEN conflictLines
  ELSE
    LET line == conflictFile[i] IN
    IF StartsWith(line, "<<<<<<< HEAD")
    THEN ExtractFrom(conflictFile, normalFile, i + 1, <<>>, TRUE, conflictLines)
    ELSE IF StartsWith(line, "=======")
    THEN
      LET startIndex == IF oursBlock = <<>> THEN -1
                        ELSE IndexOf(normalFile, oursBlock[1])
          doesMatch == \A k \in 1..Len(oursBlock) :
                          /\ startIndex + k <= Len(normalFile)
                          /\ oursBlock[k] = normalFile[startIndex + k]
          emitted == IF startIndex # -1 /\ doesMatch
                     THEN [k \in 1..Len(oursBlock) |-> startIndex + k]
                     ELSE <<>>
      IN ExtractFrom(conflictFile, normalFile, i + 1, oursBlock, FALSE,
                     conflictLines \o emitted)
    ELSE IF StartsWith(line, ">>>>>>>")
    THEN ExtractFrom(conflictFile, normalFile, i + 1, <<>>, inOursBlock,
                     conflictLines)
    ELSE IF inOursBlock
    THEN ExtractFrom(conflictFile, normalFile, i + 1, Append(oursBlock, line),
                     inOursBlock, conflictLines)
    ELSE ExtractFrom(conflictFile, normalFile, i + 1, oursBlock, inOursBlock,
                     conflictLines)

\* A faulty extraction that emits 0-indexed line numbers.
ExtractZeroIndexed(normalFile, conflictFile) ==
  LET lines == ExtractFrom(conflictFile, normalFile, 1, <<>>, FALSE, <<>>)
  IN [k \in 1..Len(lines) |-> lines[k] - 1]

extractConflictingLineNumbers(normalFile, conflictFile) ==
  ExtractFrom(conflictFile, normalFile, 1, <<>>, FALSE, <<>>)

\* extractConflictingLineNumbers (block-anchor variant): the lines its
\* loop pushes to oursBlock.
RECURSIVE OursBlockLinesFrom(_, _, _)
OursBlockLinesFrom(conflictFile, i, inOursBlock) ==
  IF i > Len(conflictFile) THEN {}
  ELSE
    LET line == conflictFile[i] IN
    IF StartsWith(line, "<<<<<<< HEAD")
    THEN OursBlockLinesFrom(conflictFile, i + 1, TRUE)
    ELSE IF StartsWith(line, "=======")
    THEN OursBlockLinesFrom(conflictFile, i + 1, FALSE)
    ELSE IF StartsWith(line, ">>>>>>>")
    THEN OursBlockLinesFrom(conflictFile, i + 1, inOursBlock)
    ELSE (IF inOursBlock THEN {line} ELSE {})
           \cup OursBlockLinesFrom(conflictFile, i + 1, inOursBlock)

\* A faulty loop that stores every line it reads.
AllLinesStored(conflictFile) == Range(conflictFile)

OursBlockLines(conflictFile) == OursBlockLinesFrom(conflictFile, 1, FALSE)

\* extractConflictingLineNumbers of the earlier variant (positional): the
\* locals of its loop after the lines from index i on; `stored` collects
\* the lines pushed to oursBlock and theirsBlock.
RECURSIVE PositionalFrom(_, _, _)
PositionalFrom(lines, i, st) ==
  IF i > Len(lines) THEN st
  ELSE
    LET line == lines[i]
        lineCounter == IF ~st.inOursBlock /\ ~st.inTheirsBlock
                       THEN st.lineCounter + 1 ELSE st.lineCounter
        counted == [st EXCEPT !.lineCounter = lineCounter]
    IN
    IF StartsWith(line, "<<<<<<< HEAD")
    THEN PositionalFrom(lines, i + 1,
           [counted EXCEPT !.inOursBlock = TRUE, !.conflictStartLine = lineCounter])
    ELSE IF StartsWith(line, "=======")
    THEN PositionalFrom(lines, i + 1,
           [counted EXCEPT !.inOursBlock = FALSE, !.inTheirsBlock = TRUE])
    ELSE IF StartsWith(line, ">>>>>>>")
    THEN
      LET differing ==
            SelectSeq([k \in 1..Len(st.oursBlock) |-> k],
                      LAMBDA k : /\ k <= Len(st.theirsBlock)
                                 /\ st.oursBlock[k] # st.theirsBlock[k])
          pushed == [n \in 1..Len(differing) |->
                       st.conflictStartLine + (differing[n] - 1)]
          emptied == <<>>
      IN PositionalFrom(lines, i + 1,
           [counted EXCEPT !.inTheirsBlock = FALSE,
                           !.conflictLines = st.conflictLines \o pushed,
                           !.oursBlock = emptied,
                           !.theirsBlock = emptied,
                           !.lineCounter = lineCounter + Len(emptied)])
    ELSE IF st.inOursBlock
    THEN PositionalFrom(lines, i + 1,
           [counted EXCEPT !.oursBlock = Append(st.oursBlock, line),
                           !.stored = st.stored \cup {line}])
    ELSE IF st.inTheirsBlock
    THEN PositionalFrom(lines, i + 1,
           [counted EXCEPT !.theirsBlock = Append(st.theirsBlock, line),
                           !.stored = st.stored \cup {line}])
    ELSE PositionalFrom(lines, i + 1, counted)

\* The locals of the positional variant before its loop.
PositionalLocals ==
  [lineCounter |-> 0, conflictLines |-> <<>>, oursBlock |-> <<>>,
   theirsBlock |-> <<>>, inOursBlock |-> FALSE, inTheirsBlock |-> FALSE,
   conflictStartLine |-> 0, stored |-> {}]

extractConflictingLineNumbersPositional(lines) ==
  PositionalFrom(lines, 1, PositionalLocals).conflictLines

PositionalBlockLines(lines) == PositionalFrom(lines, 1, PositionalLocals).stored

\* ------------------------------------------------ formatLineNumbers
\* Array.prototype.join
RECURSIVE Join(_, _)
Join(tokens, separator) ==
  IF tokens = <<>> THEN ""
  ELSE IF Len(tokens) = 1 THEN tokens[1]
  ELSE tokens[1] \o separator \o Join(Tail(tokens), separator)

\* A faulty test that also makes a range of two consecutive numbers.
IsRangeOfTwo(start, end) == end - start >= 1

\* formatLineNumbers: end - start >= 2
IsRange(start, end) == end - start >= 2

\* A faulty push that prints the two ends of a run without the range mark.
PushedEndsOnly(start, end) ==
  IF end # start THEN <<ToString(start), ToString(end)>> ELSE <<ToString(start)>>

\* formatLineNumbers: what is pushed for the run start..end.
Pushed(start, end) ==
  IF IsRange(start, end)
  THEN <<ToString(start) \o "..." \o ToString(end)>>
  ELSE IF end # start THEN <<ToString(start), ToString(end)>>
  ELSE <<ToString(start)>>

\* formatLineNumbers: its loop from index i (1-based), and the push after
\* the loop.
RECURSIVE FormatFrom(_, _, _, _, _)
FormatFrom(list, i, start, end, formatted) ==
  IF i > Len(list) THEN formatted \o Pushed(start, end)
  ELSE IF list[i] = end + 1
  THEN FormatFrom(list, i + 1, start, list[i], formatted)
  ELSE FormatFrom(list, i + 1, list[i], list[i], formatted \o Pushed(start, end))

\* formatLineNumbers(numbers); a missing argument is numbers.given = FALSE.
formatLineNumbers(numbers) ==
  IF ~numbers.given \/ Len(numbers.list) = 0 THEN ""
  ELSE Join(FormatFrom(numbers.list, 2, numbers.list[1], numbers.list[1], <<>>),
            ", ")

\* --------------------------------------------------- the environment
\* What a failed subject-candidate merge can leave in the checkout: the
\* unmerged files in the order `git diff --name-only --diff-filter=U`
\* prints them, each with its conflicted content and the content of the
\* checked-out side's committed file.
EndMarker == ">>>>>>> " \o TmpRef(pullRequestBranch)

OneLineConflict ==
  [file |-> "a.js",
   normal |-> <<"x", "ours", "z", "">>,
   conflict |-> <<"x", "<<<<<<< HEAD", "ours", "=======", "theirs",
                  EndMarker, "z", "">>]

\* The checked-out side deleted the lines the other side changed.
EmptyOursConflict ==
  [file |-> "a.js",
   normal |-> <<"x", "z", "">>,
   conflict |-> <<"x", "<<<<<<< HEAD", "=======", "theirs", EndMarker,
                  "z", "">>]

ExcludedFileConflict ==
  [file |-> "go.mod",
   normal |-> <<"module app", "go 1.20", "">>,
   conflict |-> <<"module app", "<<<<<<< HEAD", "go 1.20", "=======",
                  "go 1.21", EndMarker, "">>]

MergeScenarios ==
  { <<EmptyOursConflict>>, <<OneLineConflict, ExcludedFileConflict>> }

\* What pulls.listFiles can answer for a pull request (file names).
ChangedFileLists ==
  { <<"a.js", "go.mod">>, <<"b.js", "go.mod", "vendor/v.js">> }

\* An open pull request as pulls.list, pulls.listReviews and
\* pulls.listRequestedReviewers describe it.
Plain(n) ==
  [number |-> n, author |-> "bob", branch |-> "b" \o ToString(n),
   draft |-> FALSE, base |-> mainBranch, isFork |-> FALSE, repo |-> "org/app",
   reviews |-> <<>>, requested |-> <<>>]

PullRequests(n) ==
  { Plain(n),
    [Plain(n) EXCEPT !.author = pullRequestAuthor],
    [Plain(n) EXCEPT !.draft = TRUE],
    [Plain(n) EXCEPT !.base = "release"],
    [Plain(n) EXCEPT !.isFork = TRUE, !.repo = "bob/app"],
    [Plain(n) EXCEPT !.author = "carol", !.isFork = TRUE, !.repo = "carol/app",
                     !.branch = pullRequestBranch],
    [Plain(n) EXCEPT !.author = "carol", !.reviews = <<pullRequestAuthor, "bob">>,
                     !.requested = <<pullRequestAuthor>>] }

Subject ==
  [number |-> pullRequestNumber, author |-> pullRequestAuthor,
   branch |-> pullRequestBranch, draft |-> FALSE, base |-> mainBranch,
   isFork |-> FALSE, repo |-> headRepo, reviews |-> <<>>, requested |-> <<>>]

\* What pulls.list can answer: the subject and up to MaxOthers other open
\* pull requests, numbered upwards from the subject's number.
Worlds ==
  UNION { { <<Subject>> \o w :
              w \in { s \in [1..k -> UNION { PullRequests(n) :
                                      n \in (pullRequestNumber + 1)..(pullRequestNumber + k) }] :
                        \A i \in 1..k : s[i].number = pullRequestNumber + i } } :
          k \in 0..MaxOthers }

\* What listReviews and listRequestedReviewers can answer for the subject.
SubjectReviewerAnswers ==
  { [reviews |-> <<>>, requested |-> <<>>],
    [reviews |-> <<"bob">>, requested |-> <<>>],
    [reviews |-> <<"carol", "carol">>, requested |-> <<"bob">>] }

PlaceholderKey == "0"
Placeholder ==
  (PlaceholderKey :> "Extracting data is unnecessary if commenting is disabled.")
NoData == <<>>

\* ------------------------------------------------------------ state
VARIABLES
  pc,                 \* the statement main() is at
  payload,            \* the subject's event payload and inputs: draft, isFork, quiet
  refs,               \* git: the local branch of the integration branch and
                      \* the temporary refs that exist
  remotes,            \* git: the remotes that exist
  head,               \* git: what is checked out
  merging,            \* git: an uncommitted merge is in the checkout
  deleteTargets,      \* git: the refs `update-ref -d` was run on
  otherPullRequests,  \* getConflictArrayData: the candidates its loop has not
                      \* finished; the first one is being checked
  subjectFiles,       \* checkForConflicts: what listFiles answered for the subject
  otherFiles,         \* checkForConflicts: what listFiles answered for the candidate
  conflictData,       \* attemptMerge: file -> line numbers
  unmerged,           \* attemptMerge: unmerged files still to extract
  quietReturn,        \* attemptMerge: the quiet short-circuit's return is pending
  mergeOutcome,       \* how the subject-candidate merge command of this attempt ended
  attemptFailure,     \* the command of this attempt that threw last
  gitCommands,        \* the git commands run for this pair so far
  infraFailure,       \* a fetch, checkout, base merge or reset of some attempt threw
  apiFailure,         \* a call of the hosting API threw
  conflictArray,      \* getConflictArrayData: the conflicting pull requests
  existing_reviewers, \* requestReviews: the subject's reviewers
  reviews_requested_on_pr,
  reviews_requested_on_conflicting_prs,
  j,                  \* requestReviewsInConflictingPRs: the conflict being handled
  reviewCalls,        \* hosting: the pulls.requestReviewers calls made
  comments,           \* hosting: the issues.createComment calls made
  failed,             \* core.setFailed was called
  escaped,            \* an error left main() uncaught
  hostReviewers,      \* hosting: per pull request, the submitted reviews and
                      \* the outstanding review requests (two runs in a row)
  run,                \* which of two runs in a row is being made
  linesFromNormalFile,    \* extractConflictingLineNumbers: the committed file
  linesFromConflictFile,  \* extractConflictingLineNumbers: the conflicted file
  conflicted,         \* the committed file's lines git put into conflict hunks
  extracted,          \* extractConflictingLineNumbers: what it returned
  numbers,            \* formatLineNumbers: its argument
  formatted,          \* formatLineNumbers: what it returned
  tips,               \* git: per ref, the changes in the commit it points at
  tree,               \* git: the changes in the files of the checkout
  blockLines,         \* extractConflictingLineNumbers: the lines it stored in
                      \* its "ours" and "theirs" blocks
  page,               \* getOpenPullRequests: the page its loop asks for next
  allPullRequests     \* getOpenPullRequests: the pull requests of the pages
                      \* its loop has fetched

gitVars == <<refs, remotes, head, merging, deleteTargets>>
pairVars == <<subjectFiles, otherFiles, conflictData, unmerged,
              quietReturn, mergeOutcome, attemptFailure, gitCommands>>
loopVars == <<otherPullRequests, conflictArray>>
reviewVars == <<existing_reviewers, reviews_requested_on_pr,
                reviews_requested_on_conflicting_prs, j>>
hostVars == <<reviewCalls, comments>>
endVars == <<failed, escaped>>
contentVars == <<tips, tree>>
listVars == <<page, allPullRequests>>
functionVars == <<hostReviewers, run, linesFromNormalFile, linesFromConflictFile,
                  conflicted, extracted, numbers, formatted, contentVars, blockLines>>
callVars == <<functionVars, listVars>>

vars == <<pc, payload, gitVars, pairVars, infraFailure, apiFailure, loopVars,
          reviewVars, hostVars, endVars, callVars>>

\* The variables of the single-function specifications, at rest during a
\* run of main().
NoCalls ==
  /\ hostReviewers = <<>>
  /\ run = 1
  /\ linesFromNormalFile = <<>>
  /\ blockLines = {}
  /\ linesFromConflictFile = <<>>
  /\ conflicted = {}
  /\ extracted = <<>>
  /\ numbers = [given |-> FALSE, list |-> <<>>]
  /\ formatted = ""
  /\ tips = <<>>
  /\ tree = {}
  /\ page = 1
  /\ allPullRequests = <<>>

Init ==
  /\ pc = "main"
  /\ payload \in [draft : BOOLEAN, isFork : BOOLEAN, quiet : BOOLEAN]
  /\ refs = {}
  /\ remotes = {"origin"}
  /\ head = "HEAD"
  /\ merging = FALSE
  /\ deleteTargets = {}
  /\ otherPullRequests = <<>>
  /\ subjectFiles = <<>>
  /\ otherFiles = <<>>
  /\ conflictData = NoData
  /\ unmerged = <<>>
  /\ quietReturn = FALSE
  /\ mergeOutcome = "none"
  /\ attemptFailure = "none"
  /\ gitCommands = 0
  /\ infraFailure = FALSE
  /\ apiFailure = FALSE
  /\ conflictArray = <<>>
  /\ existing_reviewers = {}
  /\ reviews_requested_on_pr = 0
  /\ reviews_requested_on_conflicting_prs = 0
  /\ j = 1
  /\ reviewCalls = <<>>
  /\ comments = <<>>
  /\ failed = FALSE
  /\ escaped = FALSE
  /\ NoCalls

\* ----------------------------------------------------- git commands
\* Each is an action on the git state alone; `ok` is whether execSync
\* returned (TRUE) or threw (FALSE).

\* git fetch <remote> <branch>:<ref>
GitFetch(remote, ref, ok) ==
  /\ ok => remote \in remotes
  /\ refs' = IF ok THEN refs \cup {ref} ELSE refs
  /\ UNCHANGED <<remotes, head, merging, deleteTargets>>

\* git remote add <name> <url>
GitRemoteAdd(name, ok) ==
  /\ ok => name \notin remotes
  /\ remotes' = IF ok THEN remotes \cup {name} ELSE remotes
  /\ UNCHANGED <<refs, head, merging, deleteTargets>>

\* A faulty git checkout that leaves the checkout where it was.
GitCheckoutStays(ref, ok) ==
  /\ ok => ref \in refs
  /\ UNCHANGED <<refs, remotes, head, merging, deleteTargets>>

\* git checkout <ref>
GitCheckout(ref, ok) ==
  /\ ok => ref \in refs
  /\ head' = IF ok THEN ref ELSE head
  /\ UNCHANGED <<refs, remotes, merging, deleteTargets>>

\* git merge <what> --no-commit --no-ff; result is "merged" (the merge is
\* left uncommitted in the checkout), "uptodate", "conflict" (exit 1 with
\* "Automatic merge failed" on stdout) or "error" (any other failure).
GitMerge(result) ==
  /\ merging' = IF result \in {"merged", "conflict"} THEN TRUE ELSE merging
  /\ UNCHANGED <<refs, remotes, head, deleteTargets>>

\* A faulty hard reset that leaves the merge in the checkout.
GitResetHardKeepsMerge(ok) ==
  UNCHANGED <<refs, remotes, head, merging, deleteTargets>>

\* git reset --hard HEAD
GitResetHard(ok) ==
  /\ merging' = IF ok THEN FALSE ELSE merging
  /\ UNCHANGED <<refs, remotes, head, deleteTargets>>

\* A faulty git update-ref -d that leaves the ref.
GitUpdateRefKeeps(ref, ok) ==
  /\ deleteTargets' = deleteTargets \cup {ref}
  /\ UNCHANGED <<refs, remotes, head, merging>>

\* git update-ref -d <ref>
GitUpdateRefDelete(ref, ok) ==
  /\ refs' = IF ok THEN refs \ {ref} ELSE refs
  /\ deleteTargets' = deleteTargets \cup {ref}
  /\ UNCHANGED <<remotes, head, merging>>

MergeResults == {"merged", "uptodate", "conflict", "error"}

\* ------------------------------------------------------------- main
\* A faulty main() that runs the try block for a draft subject too.
DraftIgnored == pc' = "setup_config"

\* main(): the `return` of the draft check, before the try block, so
\* that neither catch nor finally is entered.
DraftReturn == pc' = "done"

\* main(): a draft subject returns before the try block.
Main ==
  /\ pc = "main"
  /\ IF payload.draft THEN DraftReturn ELSE pc' = "setup_config"
  /\ UNCHANGED <<callVars, payload, apiFailure, gitVars, pairVars, infraFailure, loopVars,
                 reviewVars, hostVars, endVars>>

\* A faulty catch block of setup() that logs the error and lets main go on.
SetupErrorLogged == pc' = "get_open_prs"

\* A command of setup() threw: setup logs and rethrows to main's catch.
SetupThrows == pc' = "main_catch"

\* setup(): git config user.email / user.name
SetupConfig ==
  /\ pc = "setup_config"
  /\ \E ok \in BOOLEAN :
       IF ok THEN pc' = "setup_fetch_main" ELSE SetupThrows
  /\ UNCHANGED <<callVars, payload, apiFailure, gitVars, pairVars, infraFailure, loopVars,
                 reviewVars, hostVars, endVars>>

\* setup(): git fetch origin main:main
SetupFetchMain ==
  /\ pc = "setup_fetch_main"
  /\ \E ok \in BOOLEAN :
       /\ GitFetch("origin", mainBranch, ok)
       /\ IF ok
          THEN pc' = IF payload.isFork THEN "setup_remote_add" ELSE "setup_fetch_pr"
          ELSE SetupThrows
  /\ UNCHANGED <<callVars, payload, apiFailure, pairVars, infraFailure, loopVars,
                 reviewVars, hostVars, endVars>>

\* setup(): git remote add <author> <fork url>, for a fork
SetupRemoteAdd ==
  /\ pc = "setup_remote_add"
  /\ \E ok \in BOOLEAN :
       /\ GitRemoteAdd(pullRequestAuthor, ok)
       /\ IF ok THEN pc' = "setup_fetch_pr" ELSE SetupThrows
  /\ UNCHANGED <<callVars, payload, apiFailure, pairVars, infraFailure, loopVars, reviewVars,
                 hostVars, endVars>>

\* setup(): git fetch <origin or author> <branch>:refs/remotes/origin/tmp_<branch>
SetupFetchPR ==
  /\ pc = "setup_fetch_pr"
  /\ \E ok \in BOOLEAN :
       /\ GitFetch(IF payload.isFork THEN pullRequestAuthor ELSE "origin",
                   TmpRef(pullRequestBranch), ok)
       /\ IF ok THEN pc' = "setup_checkout" ELSE SetupThrows
  /\ UNCHANGED <<callVars, payload, apiFailure, pairVars, infraFailure, loopVars, reviewVars,
                 hostVars, endVars>>

\* setup(): git checkout refs/remotes/origin/tmp_<branch>
SetupCheckout ==
  /\ pc = "setup_checkout"
  /\ \E ok \in BOOLEAN :
       /\ GitCheckout(TmpRef(pullRequestBranch), ok)
       /\ IF ok THEN pc' = "setup_merge_main" ELSE SetupThrows
  /\ UNCHANGED <<callVars, payload, apiFailure, pairVars, infraFailure, loopVars, reviewVars,
                 hostVars, endVars>>

\* setup(): git merge main --no-commit --no-ff
SetupMergeMain ==
  /\ pc = "setup_merge_main"
  /\ \E result \in MergeResults :
       /\ GitMerge(result)
       /\ IF result \in {"merged", "uptodate"}
          THEN pc' = "setup_reset" ELSE SetupThrows
  /\ UNCHANGED <<callVars, payload, apiFailure, pairVars, infraFailure, loopVars, reviewVars,
                 hostVars, endVars>>

\* setup(): git reset --hard HEAD
SetupReset ==
  /\ pc = "setup_reset"
  /\ \E ok \in BOOLEAN :
       /\ GitResetHard(ok)
       /\ IF ok THEN pc' = "get_open_prs" ELSE SetupThrows
  /\ UNCHANGED <<callVars, payload, apiFailure, pairVars, infraFailure, loopVars, reviewVars,
                 hostVars, endVars>>

\* main(): catch (error) { core.setFailed(error.message) }.  The locals
\* of the functions the error left are gone.
MainCatch ==
  /\ pc = "main_catch"
  /\ failed' = TRUE
  /\ pc' = "cleanup"
  /\ otherPullRequests' = <<>>
  /\ conflictArray' = <<>>
  /\ subjectFiles' = <<>>
  /\ otherFiles' = <<>>
  /\ conflictData' = NoData
  /\ unmerged' = <<>>
  /\ quietReturn' = FALSE
  /\ mergeOutcome' = "none"
  /\ attemptFailure' = "none"
  /\ gitCommands' = 0
  /\ existing_reviewers' = {}
  /\ reviews_requested_on_pr' = 0
  /\ reviews_requested_on_conflicting_prs' = 0
  /\ j' = 1
  /\ UNCHANGED <<callVars, payload, apiFailure, gitVars, infraFailure, hostVars, escaped>>

\* cleanup(), from main's finally: git update-ref -d
\* refs/remotes/origin/tmp_<pull request number>.  When the command throws,
\* the catch block reads the undeclared `error` and throws out of main.
cleanup ==
  /\ pc = "cleanup"
  /\ \E ok \in BOOLEAN :
       /\ GitUpdateRefDelete(TmpRef(ToString(pullRequestNumber)), ok)
       /\ escaped' = ~ok
  /\ pc' = "done"
  /\ UNCHANGED <<callVars, payload, apiFailure, pairVars, infraFailure, loopVars, reviewVars,
                 hostVars, failed>>

\* ------------------------------------------- getConflictArrayData
\* getOpenPullRequests: drafts are skipped; the reviewers of every other
\* listed pull request are fetched with getAllReviewers.  Beside the
\* fields the code copies, an entry keeps the draft flag and the base
\* branch of the pull request it was made from, which the code reads no
\* more.
OpenPullRequests(listed) ==
  LET kept == SelectSeq(listed, LAMBDA pr : ~pr.draft)
  IN [i \in 1..Len(kept) |->
        [number |-> kept[i].number, author |-> kept[i].author,
         branch |-> kept[i].branch,
         reviewers |-> AllReviewers(kept[i].reviews, kept[i].requested),
         isFork |-> kept[i].isFork, repo |-> kept[i].repo,
         draft |-> kept[i].draft, base |-> kept[i].base]]

\* openPullRequests.filter((pr) => pr.number !== pullRequestNumber)
OtherPullRequests(open) ==
  SelectSeq(open, LAMBDA pr : pr.number # pullRequestNumber)

\* Where main() goes when `others` are the candidates still to check: the
\* next candidate, or, after the last, the reviewer requests when the
\* conflict array is not empty, or the end of the try block.
AfterPair(others, array) ==
  IF Len(others) > 0 THEN "check"
  ELSE IF Len(array) > 0 THEN "request_reviews" ELSE "cleanup"

\* A faulty catch block that logs the error of a hosting API call and
\* does not throw it again.
ApiErrorLogged ==
  /\ apiFailure' = TRUE
  /\ pc' = "cleanup"

\* A call of the hosting API threw: no function on the way to main
\* catches the error without throwing it again, so main's catch gets it.
ApiThrows ==
  /\ apiFailure' = TRUE
  /\ pc' = "main_catch"

\* getConflictArrayData: getOpenPullRequests() answers or throws.
GetOpenPullRequests ==
  /\ pc = "get_open_prs"
  /\ \/ \E w \in Worlds :
          /\ otherPullRequests' = OtherPullRequests(OpenPullRequests(w))
          /\ pc' = AfterPair(otherPullRequests', <<>>)
          /\ UNCHANGED apiFailure
     \/ /\ ApiThrows
        /\ UNCHANGED otherPullRequests
  /\ UNCHANGED <<callVars, payload, gitVars, pairVars, infraFailure, conflictArray,
                 reviewVars, hostVars, endVars>>

\* The candidate being checked.
Other == Head(otherPullRequests)

\* checkForConflicts: the changed files it compares.
pullRequestFiles == FilterIgnored(subjectFiles)
otherPullRequestFiles == FilterIgnored(otherFiles)

\* checkForConflicts up to the call of attemptMerge: both changed-file
\* lists are fetched and filtered; without a common file it returns [].
checkForConflicts ==
  /\ pc = "check"
  /\ \/ \E mine \in ChangedFileLists, theirs \in ChangedFileLists :
          /\ subjectFiles' = mine
          /\ otherFiles' = theirs
          /\ pc' = IF Len(Overlapping(FilterIgnored(mine), FilterIgnored(theirs))) = 0
                   THEN "pair_done"
                   ELSE IF Other.isFork THEN "am_remote_add" ELSE "am_fetch"
          /\ UNCHANGED apiFailure
     \/ /\ ApiThrows
        /\ UNCHANGED <<subjectFiles, otherFiles>>
  /\ UNCHANGED <<callVars, payload, gitVars, conflictData, unmerged, quietReturn,
                 mergeOutcome, attemptFailure, gitCommands, infraFailure,
                 loopVars, reviewVars, hostVars, endVars>>

\* ------------------------------------------------------ attemptMerge
\* A command inside attemptMerge's try block threw: the catch block logs
\* the error and control falls to the finally block.
AttemptCaught(command) ==
  /\ attemptFailure' = command
  /\ pc' = "am_finally_reset"

\* attemptMerge: git remote add for a fork; its own try/catch swallows a
\* failure.
AttemptRemoteAdd ==
  /\ pc = "am_remote_add"
  /\ \E ok \in BOOLEAN : GitRemoteAdd(Other.author, ok)
  /\ pc' = "am_fetch"
  /\ gitCommands' = gitCommands + 1
  /\ UNCHANGED <<callVars, payload, apiFailure, subjectFiles, otherFiles, conflictData,
                 unmerged, quietReturn, mergeOutcome, attemptFailure,
                 infraFailure, loopVars, reviewVars, hostVars, endVars>>

\* attemptMerge: git fetch <origin or author> <branch>:refs/remotes/origin/tmp_<branch>
AttemptFetch ==
  /\ pc = "am_fetch"
  /\ \E ok \in BOOLEAN :
       /\ GitFetch(IF Other.isFork THEN Other.author ELSE "origin",
                   TmpRef(Other.branch), ok)
       /\ IF ok THEN pc' = "am_checkout" /\ UNCHANGED attemptFailure
                ELSE AttemptCaught("fetch")
       /\ infraFailure' = (infraFailure \/ ~ok)
  /\ gitCommands' = gitCommands + 1
  /\ UNCHANGED <<callVars, payload, apiFailure, subjectFiles, otherFiles, conflictData,
                 unmerged, quietReturn, mergeOutcome, loopVars, reviewVars,
                 hostVars, endVars>>

\* attemptMerge: git checkout refs/remotes/origin/tmp_<candidate branch>
AttemptCheckout ==
  /\ pc = "am_checkout"
  /\ \E ok \in BOOLEAN :
       /\ GitCheckout(TmpRef(Other.branch), ok)
       /\ IF ok THEN pc' = "am_merge_main" /\ UNCHANGED attemptFailure
                ELSE AttemptCaught("checkout")
       /\ infraFailure' = (infraFailure \/ ~ok)
  /\ gitCommands' = gitCommands + 1
  /\ UNCHANGED <<callVars, payload, apiFailure, subjectFiles, otherFiles, conflictData,
                 unmerged, quietReturn, mergeOutcome, loopVars, reviewVars,
                 hostVars, endVars>>

\* attemptMerge: git merge main --no-commit --no-ff
AttemptMergeMain ==
  /\ pc = "am_merge_main"
  /\ \E result \in MergeResults :
       /\ GitMerge(result)
       /\ IF result \in {"merged", "uptodate"}
          THEN pc' = "am_reset" /\ UNCHANGED attemptFailure
          ELSE AttemptCaught("base_merge")
       /\ infraFailure' = (infraFailure \/ result \notin {"merged", "uptodate"})
  /\ gitCommands' = gitCommands + 1
  /\ UNCHANGED <<callVars, payload, apiFailure, subjectFiles, otherFiles, conflictData,
                 unmerged, quietReturn, mergeOutcome, loopVars, reviewVars,
                 hostVars, endVars>>

\* attemptMerge: git reset --hard HEAD after the base merge
AttemptReset ==
  /\ pc = "am_reset"
  /\ \E ok \in BOOLEAN :
       /\ GitResetHard(ok)
       /\ IF ok THEN pc' = "am_merge" /\ UNCHANGED attemptFailure
                ELSE AttemptCaught("reset")
       /\ infraFailure' = (infraFailure \/ ~ok)
  /\ gitCommands' = gitCommands + 1
  /\ UNCHANGED <<callVars, payload, apiFailure, subjectFiles, otherFiles, conflictData,
                 unmerged, quietReturn, mergeOutcome, loopVars, reviewVars,
                 hostVars, endVars>>

\* A faulty inner catch that lists the unmerged files in quiet mode too.
AfterMergeListsAlways(result, quiet) ==
  IF result = "conflict" THEN "am_diff" ELSE "am_finally_reset"

\* Where attemptMerge goes after the subject-candidate merge command: on
\* the automatic-merge-failure signal to the quiet return or to the listing
\* of unmerged files, otherwise (success, or a failure without the signal)
\* to the finally block.
AfterMerge(result, quiet) ==
  IF result = "conflict" /\ ~quiet THEN "am_diff" ELSE "am_finally_reset"

\* Environment: a merge leaves a file unmerged only if both pull requests
\* changed it.
Applicable(scenario) ==
  \A k \in 1..Len(scenario) :
    Has(subjectFiles, scenario[k].file) /\ Has(otherFiles, scenario[k].file)

\* attemptMerge: the ref its subject-candidate merge command merges into
\* the checkout, refs/remotes/origin/tmp_<subject branch>.
MergedRef == TmpRef(pullRequestBranch)

\* attemptMerge: git merge refs/remotes/origin/tmp_<subject branch>
\* --no-commit --no-ff, and the inner catch's test of its stdout.
AttemptMerge ==
  /\ pc = "am_merge"
  /\ \E result \in MergeResults :
       /\ result # "error" => MergedRef \in refs
       /\ result = "conflict" => \E scenario \in MergeScenarios : Applicable(scenario)
       /\ GitMerge(result)
       /\ mergeOutcome' = result
       /\ quietReturn' = (result = "conflict" /\ payload.quiet)
       /\ pc' = AfterMerge(result, payload.quiet)
  /\ gitCommands' = gitCommands + 1
  /\ UNCHANGED <<callVars, payload, apiFailure, subjectFiles, otherFiles, conflictData,
                 unmerged, attemptFailure, infraFailure, loopVars, reviewVars,
                 hostVars, endVars>>

\* attemptMerge: git diff --name-only --diff-filter=U.
AttemptDiff ==
  /\ pc = "am_diff"
  /\ \/ \E scenario \in MergeScenarios :
          /\ Applicable(scenario)
          /\ unmerged' = scenario
          /\ pc' = "am_extract"
          /\ UNCHANGED attemptFailure
     \/ /\ AttemptCaught("diff")
        /\ UNCHANGED unmerged
  /\ gitCommands' = gitCommands + 1
  /\ UNCHANGED <<callVars, payload, apiFailure, gitVars, subjectFiles, otherFiles,
                 conflictData, quietReturn, mergeOutcome, infraFailure,
                 loopVars, reviewVars, hostVars, endVars>>

\* attemptMerge: conflictData[filename] = extractConflictingLineNumbers(...)
\* for the next unmerged file; its `git show` or file read may throw.
AttemptExtract ==
  /\ pc = "am_extract"
  /\ \/ /\ conflictData' =
             (Head(unmerged).file :>
                extractConflictingLineNumbers(Head(unmerged).normal,
                                              Head(unmerged).conflict))
             @@ conflictData
        /\ unmerged' = Tail(unmerged)
        /\ pc' = IF Tail(unmerged) = <<>> THEN "am_finally_reset" ELSE "am_extract"
        /\ UNCHANGED attemptFailure
     \/ /\ AttemptCaught("show")
        /\ unmerged' = <<>>
        /\ UNCHANGED conflictData
  /\ gitCommands' = gitCommands + 1
  /\ UNCHANGED <<callVars, payload, apiFailure, gitVars, subjectFiles, otherFiles,
                 quietReturn, mergeOutcome, infraFailure, loopVars, reviewVars,
                 hostVars, endVars>>

\* attemptMerge, finally: git reset --hard HEAD.  When it throws, the
\* error leaves attemptMerge and the ref deletion is not run.
AttemptFinallyReset ==
  /\ pc = "am_finally_reset"
  /\ \E ok \in BOOLEAN :
       /\ GitResetHard(ok)
       /\ pc' = IF ok THEN "am_finally_delete" ELSE "main_catch"
       /\ attemptFailure' = IF ok THEN attemptFailure ELSE "final_reset"
       /\ infraFailure' = (infraFailure \/ ~ok)
  /\ gitCommands' = gitCommands + 1
  /\ UNCHANGED <<callVars, payload, apiFailure, subjectFiles, otherFiles, conflictData,
                 unmerged, quietReturn, mergeOutcome, loopVars, reviewVars,
                 hostVars, endVars>>

\* A faulty return value that lacks the quiet placeholder.
AttemptResultWithoutPlaceholder(quietPending, data) == data

\* What attemptMerge returns: the quiet short-circuit's placeholder, or
\* conflictData.
AttemptResult(quietPending, data) == IF quietPending THEN Placeholder ELSE data

\* attemptMerge, finally: git update-ref -d of the candidate's temporary
\* ref, then the return to checkForConflicts and getConflictArrayData.
AttemptFinallyDelete ==
  /\ pc = "am_finally_delete"
  /\ \E ok \in BOOLEAN :
       /\ GitUpdateRefDelete(TmpRef(Other.branch), ok)
       /\ pc' = IF ok THEN "pair_done" ELSE "main_catch"
       /\ attemptFailure' = IF ok THEN attemptFailure ELSE "delete"
       /\ conflictData' = IF ok THEN AttemptResult(quietReturn, conflictData)
                          ELSE conflictData
  /\ gitCommands' = gitCommands + 1
  /\ UNCHANGED <<callVars, payload, apiFailure, subjectFiles, otherFiles, unmerged,
                 quietReturn, mergeOutcome, infraFailure, loopVars, reviewVars,
                 hostVars, endVars>>

\* A faulty key test that is also true of data without any key.
HasKeysOrNone(data) == Cardinality(DOMAIN data) >= 0

\* getConflictArrayData: Object.keys(conflictData).length > 0
HasKeys(data) == Cardinality(DOMAIN data) > 0

ConflictEntry(pr, data) ==
  [author |-> pr.author, conflictData |-> data, number |-> pr.number,
   reviewers |-> pr.reviewers]

\* A faulty loop of getConflictArrayData that checks the same candidate
\* again.
PairRepeated ==
  /\ pc = "pair_done"
  /\ pc' = "check"
  /\ subjectFiles' = <<>>
  /\ otherFiles' = <<>>
  /\ conflictData' = NoData
  /\ unmerged' = <<>>
  /\ quietReturn' = FALSE
  /\ mergeOutcome' = "none"
  /\ attemptFailure' = "none"
  /\ gitCommands' = 0
  /\ UNCHANGED <<callVars, payload, apiFailure, gitVars, infraFailure, loopVars,
                 reviewVars, hostVars, endVars>>

\* getConflictArrayData: the loop body after checkForConflicts returned;
\* the pair's locals go out of scope.
PairDone ==
  /\ pc = "pair_done"
  /\ conflictArray' = IF HasKeys(conflictData)
                      THEN Append(conflictArray, ConflictEntry(Other, conflictData))
                      ELSE conflictArray
  /\ otherPullRequests' = Tail(otherPullRequests)
  /\ pc' = AfterPair(otherPullRequests', conflictArray')
  /\ subjectFiles' = <<>>
  /\ otherFiles' = <<>>
  /\ conflictData' = NoData
  /\ unmerged' = <<>>
  /\ quietReturn' = FALSE
  /\ mergeOutcome' = "none"
  /\ attemptFailure' = "none"
  /\ gitCommands' = 0
  /\ UNCHANGED <<callVars, payload, apiFailure, gitVars, infraFailure, reviewVars, hostVars, endVars>>

\* ------------------------------------------------- reviewer requests
\* conflictArray.map((conflict) => conflict.author)
Authors(array) == [i \in 1..Len(array) |-> array[i].author]

\* A faulty reviewer list that lacks the filter on existing reviewers.
ReviewersIgnoringExisting(array, existing) ==
  Dedupe(SelectSeq(Authors(array), LAMBDA author : author # pullRequestAuthor))

\* A faulty reviewer list that lacks the filter on the subject's author.
ReviewersWithSelf(array, existing) ==
  Dedupe(SelectSeq(Authors(array), LAMBDA author : author \notin existing))

\* A faulty reviewer list that keeps an author once per pull request.
ReviewersWithDuplicates(array, existing) ==
  SelectSeq(Authors(array),
            LAMBDA author : author # pullRequestAuthor /\ author \notin existing)

\* requestReviews: the reviewers it asks for on the subject.
ReviewersToRequest(array, existing) ==
  Dedupe(SelectSeq(Authors(array),
                   LAMBDA author : author # pullRequestAuthor /\ author \notin existing))

\* requestReviews: getAllReviewers(subject), then at most one
\* pulls.requestReviewers call; either API call may throw.
requestReviews ==
  /\ pc = "request_reviews"
  /\ \/ \E answer \in SubjectReviewerAnswers :
          LET existing == AllReviewers(answer.reviews, answer.requested)
              reviewers == ReviewersToRequest(conflictArray, existing)
          IN /\ existing_reviewers' = existing
             /\ reviewCalls' =
                  IF Len(reviewers) > 0
                  THEN Append(reviewCalls,
                              [pr |-> pullRequestNumber, reviewers |-> reviewers])
                  ELSE reviewCalls
             /\ reviews_requested_on_pr' = Len(reviewers)
             /\ pc' = "request_conflicting"
             /\ UNCHANGED apiFailure
     \/ /\ ApiThrows
        /\ UNCHANGED <<existing_reviewers, reviewCalls, reviews_requested_on_pr>>
  /\ UNCHANGED <<callVars, payload, gitVars, pairVars, infraFailure, loopVars,
                 reviews_requested_on_conflicting_prs, j, comments, endVars>>

\* A faulty test that lacks the check of the conflicting pull request's
\* reviewers.
ShouldRequestIgnoringReviewers(conflict) == conflict.author # pullRequestAuthor

\* A faulty test that lacks the comparison of the authors.
ShouldRequestIgnoringAuthor(conflict) == pullRequestAuthor \notin conflict.reviewers

\* requestReviewsInConflictingPRs: the test guarding the request.
ShouldRequestOn(conflict) ==
  conflict.author # pullRequestAuthor /\ pullRequestAuthor \notin conflict.reviewers

\* A faulty test that lacks the check of the quiet input.
ShouldCommentIgnoringQuiet(quiet, onPr, onConflicting) ==
  onPr > 0 \/ onConflicting > 0

\* main(): the test guarding createConflictComment.
ShouldComment(quiet, onPr, onConflicting) ==
  ~quiet /\ (onPr > 0 \/ onConflicting > 0)

\* requestReviewsInConflictingPRs: one iteration of its loop, and after
\* the last one its return to main.
requestReviewsInConflictingPRs ==
  /\ pc = "request_conflicting"
  /\ IF j > Len(conflictArray)
     THEN /\ pc' = IF ShouldComment(payload.quiet, reviews_requested_on_pr,
                                    reviews_requested_on_conflicting_prs)
                   THEN "create_comment" ELSE "cleanup"
          /\ UNCHANGED <<reviewCalls, reviews_requested_on_conflicting_prs, j,
                         apiFailure>>
     ELSE IF ShouldRequestOn(conflictArray[j])
     THEN \/ /\ reviewCalls' =
                  Append(reviewCalls, [pr |-> conflictArray[j].number,
                                       reviewers |-> <<pullRequestAuthor>>])
             /\ reviews_requested_on_conflicting_prs' =
                  reviews_requested_on_conflicting_prs + 1
             /\ j' = j + 1
             /\ pc' = "request_conflicting"
             /\ UNCHANGED apiFailure
          \/ /\ ApiThrows
             /\ UNCHANGED <<reviewCalls, reviews_requested_on_conflicting_prs, j>>
     ELSE /\ j' = j + 1
          /\ pc' = "request_conflicting"
          /\ UNCHANGED <<reviewCalls, reviews_requested_on_conflicting_prs,
                         apiFailure>>
  /\ UNCHANGED <<callVars, payload, gitVars, pairVars, infraFailure, loopVars,
                 existing_reviewers, reviews_requested_on_pr, comments, endVars>>

\* createConflictComment: totalFilesWithConflicts.
RECURSIVE TotalFiles(_)
TotalFiles(array) ==
  IF array = <<>> THEN 0
  ELSE Cardinality(DOMAIN Head(array).conflictData) + TotalFiles(Tail(array))

\* A faulty comment, created on the first conflicting pull request.
CommentOnConflicting(array) ==
  [issue_number |-> array[1].number, files |-> TotalFiles(array),
   prs |-> Len(array)]

\* createConflictComment: the issues.createComment call, with the counts
\* its first line states.
ConflictComment(array) ==
  [issue_number |-> pullRequestNumber, files |-> TotalFiles(array),
   prs |-> Len(array)]

\* createConflictComment: every file of every entry is among the files
\* listed for the entry's pull request.
AllFound(array, listed) ==
  \A i \in 1..Len(array) :
    \A fileName \in DOMAIN array[i].conflictData : Has(listed[i], fileName)

\* createConflictComment: for every file of every entry the candidate's
\* files are listed and the file's blob_url is read (a TypeError when the
\* file is not among them); then one comment is created on the subject.
createConflictComment ==
  /\ pc = "create_comment"
  /\ \/ \E listed \in [1..Len(conflictArray) -> ChangedFileLists] :
          IF AllFound(conflictArray, listed)
          THEN /\ comments' = Append(comments, ConflictComment(conflictArray))
               /\ pc' = "cleanup"
               /\ UNCHANGED apiFailure
          ELSE /\ pc' = "main_catch"
               /\ UNCHANGED <<comments, apiFailure>>
     \/ /\ ApiThrows
        /\ UNCHANGED comments
  /\ UNCHANGED <<callVars, payload, gitVars, pairVars, infraFailure, loopVars,
                 reviewVars, reviewCalls, endVars>>

\* -------------------------------------------------------------- run
Next ==
  \/ Main
  \/ SetupConfig
  \/ SetupFetchMain
  \/ SetupRemoteAdd
  \/ SetupFetchPR
  \/ SetupCheckout
  \/ SetupMergeMain
  \/ SetupReset
  \/ GetOpenPullRequests
  \/ checkForConflicts
  \/ AttemptRemoteAdd
  \/ AttemptFetch
  \/ AttemptCheckout
  \/ AttemptMergeMain
  \/ AttemptReset
  \/ AttemptMerge
  \/ AttemptDiff
  \/ AttemptExtract
  \/ AttemptFinallyReset
  \/ AttemptFinallyDelete
  \/ PairDone
  \/ requestReviews
  \/ requestReviewsInConflictingPRs
  \/ createConflictComment
  \/ MainCatch
  \/ cleanup

Spec == Init /\ [][Next]_vars

\* ------------------------------------------------- two runs in a row
\* The reviewer requests of a run followed by those of a second run for
\* the same conflicting pull requests, with a hosting service that keeps
\* the requests it was sent: listRequestedReviewers answers them to the
\* second run.  Every call succeeds.

\* The variables of a run of main() that these specifications leave alone.
mainVars == <<payload, gitVars, pairVars, infraFailure, apiFailure,
              otherPullRequests, comments, endVars, contentVars, listVars>>

MainAtRest ==
  /\ payload = [draft |-> FALSE, isFork |-> FALSE, quiet |-> FALSE]
  /\ refs = {}
  /\ remotes = {"origin"}
  /\ head = "HEAD"
  /\ merging = FALSE
  /\ deleteTargets = {}
  /\ otherPullRequests = <<>>
  /\ subjectFiles = <<>>
  /\ otherFiles = <<>>
  /\ conflictData = NoData
  /\ unmerged = <<>>
  /\ quietReturn = FALSE
  /\ mergeOutcome = "none"
  /\ attemptFailure = "none"
  /\ gitCommands = 0
  /\ infraFailure = FALSE
  /\ apiFailure = FALSE
  /\ comments = <<>>
  /\ failed = FALSE
  /\ escaped = FALSE
  /\ tips = <<>>
  /\ tree = {}
  /\ page = 1
  /\ allPullRequests = <<>>

\* What listReviews and listRequestedReviewers can answer for a
\* conflicting pull request before the first run.
OtherReviewerAnswers ==
  { [reviews |-> <<>>, requested |-> <<>>],
    [reviews |-> <<pullRequestAuthor>>, requested |-> <<>>],
    [reviews |-> <<>>, requested |-> <<pullRequestAuthor>>] }

\* The logins of the authors of conflicting pull requests.
Logins == {pullRequestAuthor, "bob", "carol"}

\* getAllReviewers(n) against the hosting state.
HostReviewers(host, n) == AllReviewers(host[n].reviews, host[n].requested)

\* The conflict array of a run: the conflicting pull requests numbered from
\* pullRequestNumber + 1, with the given authors and with the reviewers
\* getOpenPullRequests reads from the hosting service for each.
ConflictsOf(authors, host) ==
  [i \in 1..Len(authors) |->
     ConflictEntry([author |-> authors[i], number |-> pullRequestNumber + i,
                    reviewers |-> HostReviewers(host, pullRequestNumber + i)],
                   OneLineConflict.file :> <<2>>)]

\* pulls.requestReviewers as the hosting service applies it.
HostRequest(host, n, logins) ==
  [host EXCEPT ![n].requested = host[n].requested \o logins]

InitRerun ==
  /\ MainAtRest
  /\ pc = "rerun_request_reviews"
  /\ run = 1
  /\ \E n \in 1..MaxOthers :
       /\ hostReviewers \in
            { h \in [pullRequestNumber..(pullRequestNumber + n) ->
                       SubjectReviewerAnswers \cup OtherReviewerAnswers] :
                /\ h[pullRequestNumber] \in SubjectReviewerAnswers
                /\ \A i \in 1..n : h[pullRequestNumber + i] \in OtherReviewerAnswers }
       /\ \E authors \in [1..n -> Logins] :
            conflictArray = ConflictsOf(authors, hostReviewers)
  /\ existing_reviewers = {}
  /\ reviews_requested_on_pr = 0
  /\ reviews_requested_on_conflicting_prs = 0
  /\ j = 1
  /\ reviewCalls = <<>>
  /\ linesFromNormalFile = <<>>
  /\ blockLines = {}
  /\ linesFromConflictFile = <<>>
  /\ conflicted = {}
  /\ extracted = <<>>
  /\ numbers = [given |-> FALSE, list |-> <<>>]
  /\ formatted = ""

\* requestReviews, all calls succeeding.
RerunRequestReviews ==
  /\ pc = "rerun_request_reviews"
  /\ LET existing == HostReviewers(hostReviewers, pullRequestNumber)
         reviewers == ReviewersToRequest(conflictArray, existing)
     IN /\ existing_reviewers' = existing
        /\ IF Len(reviewers) > 0
           THEN /\ reviewCalls' =
                     Append(reviewCalls,
                            [pr |-> pullRequestNumber, reviewers |-> reviewers])
                /\ hostReviewers' =
                     HostRequest(hostReviewers, pullRequestNumber, reviewers)
           ELSE UNCHANGED <<reviewCalls, hostReviewers>>
        /\ reviews_requested_on_pr' = Len(reviewers)
  /\ pc' = "rerun_request_conflicting"
  /\ UNCHANGED <<mainVars, conflictArray, reviews_requested_on_conflicting_prs,
                 j, run, blockLines, linesFromNormalFile, linesFromConflictFile,
                 conflicted, extracted, numbers, formatted>>

\* requestReviewsInConflictingPRs, all calls succeeding: one iteration of
\* its loop, and after the last one its return.
RerunRequestConflicting ==
  /\ pc = "rerun_request_conflicting"
  /\ IF j > Len(conflictArray)
     THEN /\ pc' = IF run = 1 THEN "rerun_list" ELSE "rerun_done"
          /\ UNCHANGED <<reviewCalls, hostReviewers,
                         reviews_requested_on_conflicting_prs, j>>
     ELSE IF ShouldRequestOn(conflictArray[j])
     THEN /\ reviewCalls' =
               Append(reviewCalls, [pr |-> conflictArray[j].number,
                                    reviewers |-> <<pullRequestAuthor>>])
          /\ hostReviewers' = HostRequest(hostReviewers, conflictArray[j].number,
                                          <<pullRequestAuthor>>)
          /\ reviews_requested_on_conflicting_prs' =
               reviews_requested_on_conflicting_prs + 1
          /\ j' = j + 1
          /\ pc' = "rerun_request_conflicting"
     ELSE /\ j' = j + 1
          /\ pc' = "rerun_request_conflicting"
          /\ UNCHANGED <<reviewCalls, hostReviewers,
                         reviews_requested_on_conflicting_prs>>
  /\ UNCHANGED <<mainVars, conflictArray, existing_reviewers,
                 reviews_requested_on_pr, run, blockLines, linesFromNormalFile,
                 linesFromConflictFile, conflicted, extracted, numbers, formatted>>

\* The second run begins: its getOpenPullRequests reads every pull
\* request's reviewers anew, and its conflict array has the same pull
\* requests.
RerunList ==
  /\ pc = "rerun_list"
  /\ run' = 2
  /\ conflictArray' =
       ConflictsOf(Authors(conflictArray), hostReviewers)
  /\ existing_reviewers' = {}
  /\ reviews_requested_on_pr' = 0
  /\ reviews_requested_on_conflicting_prs' = 0
  /\ j' = 1
  /\ reviewCalls' = <<>>
  /\ pc' = "rerun_request_reviews"
  /\ UNCHANGED <<mainVars, hostReviewers, blockLines, linesFromNormalFile,
                 linesFromConflictFile, conflicted, extracted, numbers, formatted>>

NextRerun ==
  \/ RerunRequestReviews
  \/ RerunRequestConflicting
  \/ RerunList

SpecRerun == InitRerun /\ [][NextRerun]_vars

\* ------------------------------ extractConflictingLineNumbers alone
\* The variables of a run and of its reviewer requests, which the
\* specifications of single functions leave alone.
runVars == <<mainVars, conflictArray, reviewVars, reviewCalls, hostReviewers, run>>

RunAtRest ==
  /\ MainAtRest
  /\ conflictArray = <<>>
  /\ existing_reviewers = {}
  /\ reviews_requested_on_pr = 0
  /\ reviews_requested_on_conflicting_prs = 0
  /\ j = 1
  /\ reviewCalls = <<>>
  /\ hostReviewers = <<>>
  /\ run = 1

\* The texts of the lines of a committed file; a blank line has the text
\* of the element split("\n") leaves after the final newline.
LineTexts == {"x", "}", ""}

\* The committed files: up to MaxLines lines.
NormalLines == UNION { [1..n -> LineTexts] : n \in 0..MaxLines }

\* What git leaves in the checkout for a file whose lines `hunkLines` of
\* the checked-out side conflict with the merged side: every maximal run
\* of conflicting lines is one hunk, whose other side is one line "y".
RECURSIVE ConflictFrom(_, _, _)
ConflictFrom(lines, hunkLines, i) ==
  IF i > Len(lines) THEN <<>>
  ELSE
    (IF i \in hunkLines /\ (i - 1) \notin hunkLines THEN <<"<<<<<<< HEAD">> ELSE <<>>)
    \o <<lines[i]>>
    \o (IF i \in hunkLines /\ (i + 1) \notin hunkLines
        THEN <<"=======", "y", EndMarker>> ELSE <<>>)
    \o ConflictFrom(lines, hunkLines, i + 1)

\* String.prototype.split("\n") of a file that ends with a newline.
Split(lines) == lines \o <<"">>

\* Conflicts in which a hunk has no line of the checked-out side: alone,
\* before a hunk that has one, and under the diff3 conflict style, which
\* prints the common ancestor's lines after a "|||||||" line.
SkippedThenMatchedConflict ==
  [file |-> "a.js",
   normal |-> <<"x", "ours", "z", "">>,
   conflict |-> <<"<<<<<<< HEAD", "=======", "theirs", EndMarker, "x",
                  "<<<<<<< HEAD", "ours", "=======", "theirs", EndMarker,
                  "z", "">>]

Diff3Conflict ==
  [file |-> "a.js",
   normal |-> <<"x", "z", "">>,
   conflict |-> <<"x", "<<<<<<< HEAD", "||||||| 1a2b3c", "w", "=======",
                  "theirs", EndMarker, "z", "">>]

\* The files of these conflicts and of the merge scenarios, with the
\* committed file's lines that are in a hunk.
GivenConflicts ==
  { [file |-> EmptyOursConflict, hunkLines |-> {}],
    [file |-> OneLineConflict, hunkLines |-> {2}],
    [file |-> ExcludedFileConflict, hunkLines |-> {2}],
    [file |-> SkippedThenMatchedConflict, hunkLines |-> {2}],
    [file |-> Diff3Conflict, hunkLines |-> {}] }

InitExtract ==
  /\ RunAtRest
  /\ pc = "extract"
  /\ \/ \E lines \in NormalLines :
          /\ linesFromNormalFile = Split(lines)
          /\ conflicted \in SUBSET (1..Len(lines))
          /\ linesFromConflictFile = Split(ConflictFrom(lines, conflicted, 1))
     \/ \E given \in GivenConflicts :
          /\ linesFromNormalFile = given.file.normal
          /\ conflicted = given.hunkLines
          /\ linesFromConflictFile = given.file.conflict
  /\ blockLines = {}
  /\ extracted = <<>>
  /\ numbers = [given |-> FALSE, list |-> <<>>]
  /\ formatted = ""

\* One call of extractConflictingLineNumbers.
Extract ==
  /\ pc = "extract"
  /\ extracted' =
       extractConflictingLineNumbers(linesFromNormalFile, linesFromConflictFile)
  /\ blockLines' = OursBlockLines(linesFromConflictFile)
  /\ pc' = "extracted"
  /\ UNCHANGED <<runVars, linesFromNormalFile, linesFromConflictFile,
                 conflicted, numbers, formatted>>

NextExtract == Extract

SpecExtract == InitExtract /\ [][NextExtract]_vars

\* ------------------------------- both variants of the line recovery
\* A committed file with a line that begins like a separator (a heading
\* underlined with "="), in conflict with the merged side.
UnderlinedHeadingConflict ==
  [file |-> "README.md",
   normal |-> <<"Title", "=======", "text", "">>,
   conflict |-> <<"<<<<<<< HEAD", "Title", "=======", "=======", "Other",
                  "=======", EndMarker, "text", "">>]

\* A committed file of four lines whose first two lines are one hunk and
\* whose last line is another.
TwoHunksConflict ==
  [file |-> "a.js",
   normal |-> Split(<<"a", "b", "c", "d">>),
   conflict |-> Split(ConflictFrom(<<"a", "b", "c", "d">>, {1, 2, 4}, 1))]

StrategyConflicts ==
  { [file |-> UnderlinedHeadingConflict, hunkLines |-> {1, 2}],
    [file |-> TwoHunksConflict, hunkLines |-> {1, 2, 4}] }

InitStrategies ==
  \/ InitExtract
  \/ /\ RunAtRest
     /\ pc = "extract"
     /\ \E given \in StrategyConflicts :
          /\ linesFromNormalFile = given.file.normal
          /\ conflicted = given.hunkLines
          /\ linesFromConflictFile = given.file.conflict
     /\ blockLines = {}
     /\ extracted = <<>>
     /\ numbers = [given |-> FALSE, list |-> <<>>]
     /\ formatted = ""

\* One call of the positional variant of extractConflictingLineNumbers.
ExtractPositional ==
  /\ pc = "extract"
  /\ extracted' = extractConflictingLineNumbersPositional(linesFromConflictFile)
  /\ blockLines' = PositionalBlockLines(linesFromConflictFile)
  /\ pc' = "extracted_positional"
  /\ UNCHANGED <<runVars, linesFromNormalFile, linesFromConflictFile,
                 conflicted, numbers, formatted>>

NextStrategies == Extract \/ ExtractPositional

SpecStrategies == InitStrategies /\ [][NextStrategies]_vars

\* --------------------------------------------- formatLineNumbers alone
\* The line numbers of the lists formatted.
FormatLines == {-1, 0, 1, 5, 6, 7, 10}

\* The arguments: a missing list, or a list of up to MaxNumbers numbers.
FormatArguments ==
  {[given |-> FALSE, list |-> <<>>]}
    \cup { [given |-> TRUE, list |-> l] :
             l \in UNION { [1..n -> FormatLines] : n \in 0..MaxNumbers } }

InitFormat ==
  /\ RunAtRest
  /\ pc = "format"
  /\ numbers \in FormatArguments
  /\ formatted = ""
  /\ linesFromNormalFile = <<>>
  /\ blockLines = {}
  /\ linesFromConflictFile = <<>>
  /\ conflicted = {}
  /\ extracted = <<>>

\* One call of formatLineNumbers.
Format ==
  /\ pc = "format"
  /\ formatted' = formatLineNumbers(numbers)
  /\ pc' = "formatted"
  /\ UNCHANGED <<runVars, blockLines, linesFromNormalFile, linesFromConflictFile,
                 conflicted, extracted, numbers>>

NextFormat == Format

SpecFormat == InitFormat /\ [][NextFormat]_vars

\* ------------------------------------- the base merge and its reset
\* The commands that prepare the two sides of the subject-candidate merge
\* (setup: checkout, merge of the integration branch, hard reset;
\* attemptMerge: the same for the candidate, then the merge of the
\* subject's ref), on the content of the refs and of the checkout.  A
\* content is the set of changes it holds.  No command of the program
\* commits, so no ref moves.

\* The changes on the integration branch that a pull request branch may lack.
MainChanges == {"m1", "m2"}

\* The candidate of the pair.
StageCandidate == Plain(pullRequestNumber + 1)

\* The variables these commands leave alone.
stageRest == <<payload, pairVars, infraFailure, apiFailure, loopVars,
               reviewVars, hostVars, endVars, hostReviewers, run, blockLines,
               linesFromNormalFile, linesFromConflictFile, conflicted,
               extracted, numbers, formatted, listVars>>

\* After the fetches of setup and attemptMerge: the three refs exist, and
\* each pull request branch holds its own change and some of the
\* integration branch's.
InitStage ==
  /\ pc = "setup_checkout"
  /\ payload = [draft |-> FALSE, isFork |-> FALSE, quiet |-> FALSE]
  /\ refs = {mainBranch, TmpRef(pullRequestBranch), TmpRef(StageCandidate.branch)}
  /\ \E inSubject \in SUBSET MainChanges, inCandidate \in SUBSET MainChanges :
       tips = (mainBranch :> MainChanges)
                @@ (TmpRef(pullRequestBranch) :> ({"subject"} \cup inSubject))
                @@ (TmpRef(StageCandidate.branch) :> ({"candidate"} \cup inCandidate))
  /\ tree = {}
  /\ remotes = {"origin"}
  /\ head = "HEAD"
  /\ merging = FALSE
  /\ deleteTargets = {}
  /\ otherPullRequests = OtherPullRequests(OpenPullRequests(<<Subject, StageCandidate>>))
  /\ subjectFiles = <<>>
  /\ otherFiles = <<>>
  /\ conflictData = NoData
  /\ unmerged = <<>>
  /\ quietReturn = FALSE
  /\ mergeOutcome = "none"
  /\ attemptFailure = "none"
  /\ gitCommands = 0
  /\ infraFailure = FALSE
  /\ apiFailure = FALSE
  /\ conflictArray = <<>>
  /\ existing_reviewers = {}
  /\ reviews_requested_on_pr = 0
  /\ reviews_requested_on_conflicting_prs = 0
  /\ j = 1
  /\ reviewCalls = <<>>
  /\ comments = <<>>
  /\ failed = FALSE
  /\ escaped = FALSE
  /\ hostReviewers = <<>>
  /\ run = 1
  /\ linesFromNormalFile = <<>>
  /\ blockLines = {}
  /\ linesFromConflictFile = <<>>
  /\ conflicted = {}
  /\ extracted = <<>>
  /\ numbers = [given |-> FALSE, list |-> <<>>]
  /\ formatted = ""
  /\ page = 1
  /\ allPullRequests = <<>>

\* git checkout <ref>: the files of the checkout are those of the ref's
\* commit.
CheckoutContent(ref, next) ==
  /\ \E ok \in BOOLEAN :
       /\ GitCheckout(ref, ok)
       /\ tree' = IF ok THEN tips[ref] ELSE tree
       /\ pc' = IF ok THEN next ELSE "thrown"
  /\ UNCHANGED <<tips, stageRest>>

\* git merge <ref> --no-commit --no-ff: "uptodate" when the checkout's
\* commit holds every change of the ref; otherwise the ref's changes are
\* put into the files of the checkout and nothing is committed.
MergeContent(ref, next) ==
  /\ \E result \in MergeResults :
       /\ result = "uptodate" => tips[ref] \subseteq tips[head]
       /\ result \in {"merged", "conflict"} => ~(tips[ref] \subseteq tips[head])
       /\ GitMerge(result)
       /\ tree' = IF result \in {"merged", "conflict"}
                  THEN tree \cup tips[ref] ELSE tree
       /\ pc' = IF result \in {"merged", "uptodate"} THEN next ELSE "thrown"
  /\ UNCHANGED <<tips, stageRest>>

\* git reset --hard HEAD: the files of the checkout are again those of
\* the checked-out commit.
TreeAfterReset(ok) == IF ok THEN tips[head] ELSE tree

ResetContent(next) ==
  /\ \E ok \in BOOLEAN :
       /\ GitResetHard(ok)
       /\ tree' = TreeAfterReset(ok)
       /\ pc' = IF ok THEN next ELSE "thrown"
  /\ UNCHANGED <<tips, stageRest>>

\* setup(): git checkout refs/remotes/origin/tmp_<branch>
StageSetupCheckout ==
  pc = "setup_checkout"
    /\ CheckoutContent(TmpRef(pullRequestBranch), "setup_merge_main")

\* setup(): git merge main --no-commit --no-ff
StageSetupMergeMain ==
  pc = "setup_merge_main" /\ MergeContent(mainBranch, "setup_reset")

\* setup(): git reset --hard HEAD
StageSetupReset ==
  pc = "setup_reset" /\ ResetContent("am_checkout")

\* attemptMerge: git checkout refs/remotes/origin/tmp_<candidate branch>
StageAttemptCheckout ==
  pc = "am_checkout" /\ CheckoutContent(TmpRef(Other.branch), "am_merge_main")

\* attemptMerge: git merge main --no-commit --no-ff
StageAttemptMergeMain ==
  pc = "am_merge_main" /\ MergeContent(mainBranch, "am_reset")

\* attemptMerge: git reset --hard HEAD
StageAttemptReset ==
  pc = "am_reset" /\ ResetContent("am_merge")

\* attemptMerge: git merge refs/remotes/origin/tmp_<subject branch>
\* --no-commit --no-ff
StageAttemptMerge ==
  pc = "am_merge" /\ MergeContent(MergedRef, "merge_attempted")

NextStage ==
  \/ StageSetupCheckout
  \/ StageSetupMergeMain
  \/ StageSetupReset
  \/ StageAttemptCheckout
  \/ StageAttemptMergeMain
  \/ StageAttemptReset
  \/ StageAttemptMerge

SpecStage == InitStage /\ [][NextStage]_vars

\* ------------------------------------ a run with the listing page by page
\* A run of main() in which getOpenPullRequests asks pulls.list for one
\* page after the other (its while (true) loop).  The hosting service
\* lists the subject first and numbers the others upwards; it holds at
\* most MaxOthers others, so that a page after the last one is empty.

\* The pull requests that take different ways through main(): one that is
\* checked, one of the subject's author, a draft, one from a fork.
PagedPullRequests(n) ==
  { Plain(n),
    [Plain(n) EXCEPT !.author = pullRequestAuthor],
    [Plain(n) EXCEPT !.draft = TRUE],
    [Plain(n) EXCEPT !.isFork = TRUE, !.repo = "bob/app"] }

\* What pulls.list can hold at position m of its listing.
Listed(m) ==
  IF m = 1 THEN {Subject} ELSE PagedPullRequests(pullRequestNumber + m - 1)

\* The pages of k pull requests that can follow `fetched` listed ones.
PagesAfter(fetched, k) ==
  { pulls \in [1..k -> UNION { Listed(fetched + i) : i \in 1..k }] :
      \A i \in 1..k : pulls[i] \in Listed(fetched + i) }

\* How many entries the page asked for may have: none after the last
\* listed pull request.
PageLengths(fetched) == 1..(MaxOthers + 1 - fetched)

\* getOpenPullRequests, the loop body for a page that has entries:
\* allPullRequests.push(...pullRequests); page++.  The call may throw.
ListPage ==
  /\ pc = "get_open_prs"
  /\ \/ \E k \in PageLengths(Len(allPullRequests)) :
          \E pulls \in PagesAfter(Len(allPullRequests), k) :
            /\ allPullRequests' = allPullRequests \o pulls
            /\ page' = page + 1
            /\ UNCHANGED <<pc, apiFailure>>
     \/ /\ ApiThrows
        /\ page' = 1
        /\ allPullRequests' = <<>>
  /\ UNCHANGED <<functionVars, payload, gitVars, pairVars, infraFailure, loopVars,
                 reviewVars, hostVars, endVars>>

\* getOpenPullRequests, an empty page: break; then the loop over
\* allPullRequests that skips drafts and fetches reviewers, and back in
\* getConflictArrayData the filter on the subject's number.
ListEnd ==
  /\ pc = "get_open_prs"
  /\ \/ /\ otherPullRequests' = OtherPullRequests(OpenPullRequests(allPullRequests))
        /\ pc' = AfterPair(otherPullRequests', <<>>)
        /\ UNCHANGED apiFailure
     \/ /\ ApiThrows
        /\ UNCHANGED otherPullRequests
  /\ page' = 1
  /\ allPullRequests' = <<>>
  /\ UNCHANGED <<functionVars, payload, gitVars, pairVars, infraFailure, conflictArray,
                 reviewVars, hostVars, endVars>>

NextPaged ==
  \/ Main
  \/ SetupConfig
  \/ SetupFetchMain
  \/ SetupRemoteAdd
  \/ SetupFetchPR
  \/ SetupCheckout
  \/ SetupMergeMain
  \/ SetupReset
  \/ ListPage
  \/ ListEnd
  \/ checkForConflicts
  \/ AttemptRemoteAdd
  \/ AttemptFetch
  \/ AttemptCheckout
  \/ AttemptMergeMain
  \/ AttemptReset
  \/ AttemptMerge
  \/ AttemptDiff
  \/ AttemptExtract
  \/ AttemptFinallyReset
  \/ AttemptFinallyDelete
  \/ PairDone
  \/ requestReviews
  \/ requestReviewsInConflictingPRs
  \/ createConflictComment
  \/ MainCatch
  \/ cleanup

\* main() runs to its end on one thread: as every command and every call
\* of the hosting API returns, the statement main() is at is executed.
FairSpec == Init /\ [][NextPaged]_vars /\ WF_vars(NextPaged)

\* ------------------------------------------------------------ claims
\* main() is inside attemptMerge.
AttemptPcs ==
  {"am_remote_add", "am_fetch", "am_checkout", "am_merge_main", "am_reset",
   "am_merge", "am_diff", "am_extract", "am_finally_reset", "am_finally_delete"}

\* The candidate's fetch into its temporary ref has succeeded in this attempt.
StagedPcs == AttemptPcs \ {"am_remote_add", "am_fetch"}

\* Control is back in attemptMerge's caller, by a return or by an error
\* thrown from the finally block.
ReturnedFromAttempt ==
  \/ pc = "pair_done" /\ gitCommands > 0
  \/ pc = "main_catch" /\ attemptFailure \in {"final_reset", "delete"}

\* C1: on every exit path of attemptMerge the candidate's temporary ref does
\* not exist when control returns to the caller.
C1_CandidateRefGoneOnReturn ==
  ReturnedFromAttempt => TmpRef(Other.branch) \notin refs

\* C2: when a run ends, the temporary ref setup created for the subject has
\* been the target of a delete.
C2_SubjectRefDeleteTargeted ==
  (pc = "done" /\ TmpRef(pullRequestBranch) \in refs)
    => TmpRef(pullRequestBranch) \in deleteTargets

\* C3: a run in which a fetch, checkout, base merge or reset of a merge
\* attempt failed ends reported as failed.
C3_InfraFailureFailsRun ==
  (pc = "done" /\ infraFailure) => failed

\* C4: attemptMerge returns conflict data only when the subject-candidate
\* merge failed with the automatic-merge-failure signal, and it does not
\* return normally (as a clean merge or as a conflict) when that merge
\* command failed without the signal.
C4_MergeErrorIsNotAResult ==
  pc = "pair_done" =>
    /\ Cardinality(DOMAIN conflictData) > 0 => mergeOutcome = "conflict"
    /\ mergeOutcome # "error"

\* The two filtered changed-file sets of the pair have no common file.
Disjoint ==
  Range(FilterIgnored(subjectFiles)) \cap Range(FilterIgnored(otherFiles)) = {}

\* C5: for a pair whose changed-file sets, excluded paths removed, are
\* disjoint, attemptMerge is never invoked, no git command is run for the
\* pair and the pair adds no entry to the conflict array.
C5_OverlapGating ==
  /\ [](pc \in AttemptPcs => ~Disjoint)
  /\ [][(pc = "pair_done" /\ Disjoint)
          => (gitCommands = 0 /\ conflictArray' = conflictArray)]_vars

\* C5 witness: a pair whose only common file is an excluded one has been
\* returned from without an attempt.
C5_Witness ==
  /\ pc = "pair_done"
  /\ Disjoint
  /\ Has(subjectFiles, "go.mod") /\ Has(otherFiles, "go.mod")
  /\ Len(FilterIgnored(subjectFiles)) > 0

\* C6 as stated: every entry of the conflict array has a file whose list of
\* conflict line numbers is not empty.
C6_EntryHasConflictLines ==
  \A i \in 1..Len(conflictArray) :
    \E k \in DOMAIN conflictArray[i].conflictData :
      k # PlaceholderKey /\ Len(conflictArray[i].conflictData[k]) > 0

\* C6 amended: every entry of the conflict array has conflict data with at
\* least one key (a conflicted file, whose line list may be empty, or the
\* quiet placeholder), and a pair whose conflict data has no key adds no
\* entry.
C6_EntryHasKey ==
  /\ [](\A i \in 1..Len(conflictArray) : DOMAIN conflictArray[i].conflictData # {})
  /\ [][(pc = "pair_done" /\ DOMAIN conflictData = {})
          => conflictArray' = conflictArray]_vars

\* C6 witness: an entry whose only file has an empty line list.
C6_Witness ==
  /\ Len(conflictArray) > 0
  /\ DOMAIN conflictArray[1].conflictData = {"a.js"}
  /\ conflictArray[1].conflictData["a.js"] = <<>>

\* C7: a candidate that has been staged is another open, non-draft pull
\* request whose base is the integration branch.
C7_StagedTargetsMainBranch ==
  pc \in StagedPcs =>
    /\ Other.number # pullRequestNumber
    /\ ~Other.draft
    /\ Other.base = mainBranch

\* requestReviews has returned and the conflict array is in scope.
AfterRequestReviews == pc \in {"request_conflicting", "create_comment"}

\* The calls made to request reviewers on pull request n.
CallsOn(n) == SelectSeq(reviewCalls, LAMBDA call : call.pr = n)

\* The authors of conflicting pull requests that are not the subject's
\* author and not yet reviewers of the subject.
NewReviewers ==
  ({conflictArray[i].author : i \in 1..Len(conflictArray)} \ {pullRequestAuthor})
    \ existing_reviewers

\* C8: requestReviews requests on the subject exactly the distinct authors
\* of the conflicting pull requests, without the subject's author and the
\* subject's existing reviewers, in one call, returns their number, and
\* makes no call when there is none.
C8_RequestReviews ==
  AfterRequestReviews =>
    /\ reviews_requested_on_pr = Cardinality(NewReviewers)
    /\ IF NewReviewers = {}
       THEN CallsOn(pullRequestNumber) = <<>>
       ELSE /\ Len(CallsOn(pullRequestNumber)) = 1
            /\ Range(CallsOn(pullRequestNumber)[1].reviewers) = NewReviewers
            /\ Len(CallsOn(pullRequestNumber)[1].reviewers) = Cardinality(NewReviewers)

\* C8 witness: two conflicting pull requests of one author, who is asked
\* once.
C8_Witness ==
  /\ AfterRequestReviews
  /\ Len(conflictArray) = 2
  /\ conflictArray[1].author = "bob" /\ conflictArray[2].author = "bob"
  /\ existing_reviewers = {}
  /\ reviewCalls = <<[pr |-> pullRequestNumber, reviewers |-> <<"bob">>]>>

\* The subject's author is neither the author nor a reviewer of the entry.
MayRequestOn(conflict) ==
  conflict.author # pullRequestAuthor /\ pullRequestAuthor \notin conflict.reviewers

\* requestReviewsInConflictingPRs has returned and the conflict array is in
\* scope.
AfterRequestConflicting ==
  /\ pc \in {"create_comment", "cleanup", "done"}
  /\ ~failed
  /\ Len(conflictArray) > 0

\* C9: requestReviewsInConflictingPRs requests the subject's author on a
\* conflicting pull request if and only if the subject's author is neither
\* its author nor one of its reviewers, and returns the number of pull
\* requests it made a request on.
C9_RequestConflicting ==
  /\ (pc = "request_conflicting" \/ AfterRequestConflicting) =>
       \A k \in 1..Len(reviewCalls) :
         reviewCalls[k].pr # pullRequestNumber =>
           /\ reviewCalls[k].reviewers = <<pullRequestAuthor>>
           /\ \E i \in 1..Len(conflictArray) :
                /\ conflictArray[i].number = reviewCalls[k].pr
                /\ MayRequestOn(conflictArray[i])
  /\ AfterRequestConflicting =>
       /\ \A i \in 1..Len(conflictArray) :
            MayRequestOn(conflictArray[i])
              => Len(CallsOn(conflictArray[i].number)) = 1
       /\ reviews_requested_on_conflicting_prs =
            Cardinality({i \in 1..Len(conflictArray) : MayRequestOn(conflictArray[i])})

\* C9 witness: of two conflicting pull requests one already has the
\* subject's author as reviewer, and the other one got the request.
C9_Witness ==
  /\ AfterRequestConflicting
  /\ Len(conflictArray) = 2
  /\ pullRequestAuthor \in conflictArray[1].reviewers
  /\ conflictArray[2].author = "bob"
  /\ reviews_requested_on_conflicting_prs = 1

\* For the pair of the subject and a conflict entry: each direction is not
\* excluded, and has been requested.
OpenOnSubject(conflict) ==
  conflict.author # pullRequestAuthor /\ conflict.author \notin existing_reviewers
RequestedOnSubject(conflict) ==
  \E k \in 1..Len(reviewCalls) :
    reviewCalls[k].pr = pullRequestNumber /\ Has(reviewCalls[k].reviewers, conflict.author)
RequestedOnOther(conflict) ==
  \E k \in 1..Len(reviewCalls) :
    reviewCalls[k].pr = conflict.number /\ Has(reviewCalls[k].reviewers, pullRequestAuthor)

\* C10 as stated: once the run makes no more requests (main's catch or
\* finally is reached), no conflicting pair has only one of two
\* non-excluded directions requested.
C10_NeverOneDirection ==
  pc \in {"main_catch", "cleanup"} =>
    \A i \in 1..Len(conflictArray) :
      (OpenOnSubject(conflictArray[i]) /\ MayRequestOn(conflictArray[i]))
        => (RequestedOnSubject(conflictArray[i]) <=> RequestedOnOther(conflictArray[i]))

\* C10 amended: in a run that is not marked failed, for every conflicting
\* pair each direction has been requested if and only if it is not
\* excluded; only one of two non-excluded directions is requested only
\* while requestReviewsInConflictingPRs is running or when a request threw
\* and the run is about to be marked failed.
C10_BothDirectionsUnlessFailed ==
  /\ AfterRequestConflicting =>
       \A i \in 1..Len(conflictArray) :
         /\ RequestedOnSubject(conflictArray[i]) <=> OpenOnSubject(conflictArray[i])
         /\ RequestedOnOther(conflictArray[i]) <=> MayRequestOn(conflictArray[i])
  /\ (\E i \in 1..Len(conflictArray) :
        /\ OpenOnSubject(conflictArray[i]) /\ MayRequestOn(conflictArray[i])
        /\ ~(RequestedOnSubject(conflictArray[i]) <=> RequestedOnOther(conflictArray[i])))
       => pc \in {"request_conflicting", "main_catch"}

\* C10 witness: a run about to end unfailed in which both directions of a
\* pair were requested.
C10_Witness ==
  /\ AfterRequestConflicting
  /\ pc = "cleanup"
  /\ \E i \in 1..Len(conflictArray) :
       RequestedOnSubject(conflictArray[i]) /\ RequestedOnOther(conflictArray[i])

\* C12: in a run, for every pull request, a login is in at most one
\* reviewer-request call for that pull request, and at most once in the
\* call's reviewer list.
C12_NoReviewerTwice ==
  \A k \in 1..Len(reviewCalls) :
    /\ \A a, b \in 1..Len(reviewCalls[k].reviewers) :
         a # b => reviewCalls[k].reviewers[a] # reviewCalls[k].reviewers[b]
    /\ \A l \in 1..Len(reviewCalls) :
         (l # k /\ reviewCalls[l].pr = reviewCalls[k].pr)
           => Range(reviewCalls[l].reviewers) \cap Range(reviewCalls[k].reviewers) = {}

\* C12 witness: two authors were requested on the subject and the
\* subject's author on both of their pull requests.
C12_Witness ==
  /\ Len(reviewCalls) = 3
  /\ Len(reviewCalls[1].reviewers) = 2
  /\ reviewCalls[2].pr # reviewCalls[3].pr

\* The conditions under which a comment is warranted.
Warranted ==
  /\ Len(conflictArray) > 0
  /\ ~payload.quiet
  /\ reviews_requested_on_pr > 0 \/ reviews_requested_on_conflicting_prs > 0

\* C13 as stated: once main's catch or finally is reached, a comment has
\* been posted if and only if the conflict array is not empty, quiet is
\* false and a reviewer was newly requested.
C13_CommentIffWarranted ==
  pc \in {"main_catch", "cleanup"} => (Len(comments) > 0 <=> Warranted)

\* C13 amended: a comment is posted only if the conflict array is not
\* empty, quiet is false and a reviewer was newly requested;
\* createConflictComment is called exactly under these conditions, and in
\* a run that ends without being marked failed the comment was then
\* posted; with quiet set no comment is posted.
C13_CommentOnlyIfWarranted ==
  /\ Len(comments) > 0 => (Warranted /\ ~failed /\ pc \in {"cleanup", "done"})
  /\ pc = "create_comment" => Warranted
  /\ (pc \in {"cleanup", "done"} /\ ~failed /\ Warranted) => Len(comments) > 0
  /\ payload.quiet => comments = <<>>

\* C13 witness: a comment was posted in a run that requested a reviewer
\* on a conflicting pull request only.
C13_Witness ==
  /\ pc = "cleanup"
  /\ Len(comments) = 1
  /\ reviews_requested_on_pr = 0
  /\ reviews_requested_on_conflicting_prs > 0

C15_ApiFailureFailsRun ==
  apiFailure =>
    /\ pc \in {"main_catch", "cleanup", "done"}
    /\ pc \in {"cleanup", "done"} => failed
    /\ comments = <<>>

\* C15 witness: a run ended as failed after a reviewer request threw that
\* followed a successful one.
C15_Witness ==
  /\ apiFailure
  /\ pc = "done"
  /\ failed
  /\ Len(reviewCalls) > 0

CandidateRefs == refs \ {mainBranch, TmpRef(pullRequestBranch)}

\* C17: at most one candidate has a temporary ref, inside an attempt it is
\* the ref of the candidate being attempted, and when a candidate's
\* check or staging begins no candidate has a ref and no merge is in
\* progress.
C17_AttemptsDoNotOverlap ==
  /\ Cardinality(CandidateRefs) <= 1
  /\ pc \in AttemptPcs => CandidateRefs \subseteq {TmpRef(Other.branch)}
  /\ pc \in {"check", "am_remote_add", "am_fetch"}
       => (CandidateRefs = {} /\ ~merging)

\* C17 witness: the staging of a second candidate begins after the first
\* one's ref was deleted.
C17_Witness ==
  /\ pc = "am_fetch"
  /\ Cardinality(deleteTargets) = 1
  /\ TmpRef(Other.branch) \notin deleteTargets

\* C11: in the second of two runs for the same conflicting pull requests,
\* the reviewers requested by the first run being in the reviewer sets,
\* no reviewer-request call is made and both functions return 0.
C11_SecondRunRequestsNothing ==
  run = 2 =>
    /\ reviewCalls = <<>>
    /\ reviews_requested_on_pr = 0
    /\ reviews_requested_on_conflicting_prs = 0

\* C11 witness: the second run has returned from both functions after a
\* first run that made requests in both directions.
C11_Witness ==
  /\ pc = "rerun_done"
  /\ run = 2
  /\ Len(conflictArray) = 2
  /\ Has(hostReviewers[pullRequestNumber].requested, "carol")
  /\ Has(hostReviewers[pullRequestNumber + 1].requested, pullRequestAuthor)
  /\ hostReviewers[pullRequestNumber + 1].reviews = <<>>

\* C18: for a conflicted file whose only hunk is one line of the committed
\* file, extractConflictingLineNumbers returns exactly that line's number.
C18_SingleLineHunkNumber ==
  (pc = "extracted" /\ Cardinality(conflicted) = 1)
    => \E n \in conflicted : extracted = <<n>>

\* C19: the list extractConflictingLineNumbers returns is strictly
\* increasing and every number in it is a line of the committed file.
C19_StrictlyIncreasingLines ==
  pc = "extracted" =>
    /\ \A a, b \in 1..Len(extracted) : a < b => extracted[a] < extracted[b]
    /\ \A a \in 1..Len(extracted) :
         extracted[a] \in 1..(Len(linesFromNormalFile) - 1)

\* The index at which the run of consecutive numbers beginning at index i
\* ends.
RunEnd(list, i) ==
  CHOOSE k \in i..Len(list) :
    /\ \A m \in i..(k - 1) : list[m + 1] = list[m] + 1
    /\ k = Len(list) \/ list[k + 1] # list[k] + 1

\* The index at which the run of consecutive numbers holding index i
\* begins.
RunStart(list, i) ==
  CHOOSE k \in 1..i :
    /\ \A m \in k..(i - 1) : list[m + 1] = list[m] + 1
    /\ k = 1 \/ list[k] # list[k - 1] + 1

\* What is printed for index i: the range at the first index of a run of
\* three or more, nothing at the other indexes of such a run, and the
\* number itself in a shorter run.
Printed(list, i) ==
  LET first == RunStart(list, i)
      last == RunEnd(list, i)
  IN IF last - first + 1 >= 3
     THEN IF i = first
          THEN <<ToString(list[first]) \o "..." \o ToString(list[last])>>
          ELSE <<>>
     ELSE <<ToString(list[i])>>

RECURSIVE PrintedFrom(_, _)
PrintedFrom(list, i) ==
  IF i > Len(list) THEN <<>> ELSE Printed(list, i) \o PrintedFrom(list, i + 1)

\* C20: formatLineNumbers prints a run of consecutive numbers as one range
\* start...end exactly when the run has three or more numbers, the numbers
\* of shorter runs one by one, all joined by ", ", and the empty string
\* for an empty or missing list.
C20_FormatLineNumbers ==
  pc = "formatted" =>
    /\ ~numbers.given => formatted = ""
    /\ numbers.list = <<>> => formatted = ""
    /\ formatted = Join(PrintedFrom(numbers.list, 1), ", ")
    /\ numbers.list = <<5, 6, 7, 10>> => formatted = "5...7, 10"
    /\ numbers.list = <<5, 7>> => formatted = "5, 7"
    /\ numbers.list = <<5, 6>> => formatted = "5, 6"

\* C20 witness: a run of three followed by a single number.
C20_Witness ==
  /\ pc = "formatted"
  /\ numbers.list = <<5, 6, 7, 10>>
  /\ formatted = "5...7, 10"


\* The subject-candidate merge command of this attempt has been run.
MergeAttempted == mergeOutcome # "none"

C22_SubjectCheckedOutAtMerge ==
  pc = "am_merge" =>
    /\ head = TmpRef(pullRequestBranch)
    /\ MergedRef = TmpRef(Other.branch)

\* Content `side` holds every change of the integration branch.
UpToDate(side) == tips[mainBranch] \subseteq side

\* C23: after the base merge and its hard reset the checkout and the
\* staged ref hold the integration branch's changes, and when the
\* subject-candidate merge is attempted both merged sides hold them.
C23_BothSidesUpToDate ==
  /\ pc \in {"am_checkout", "am_merge"}
       => (UpToDate(tree) /\ UpToDate(tips[head]))
  /\ pc = "am_merge" => UpToDate(tips[MergedRef])

\* C24: after a subject-candidate merge attempt of any outcome, the hard
\* reset of the finally block has been executed when attemptMerge
\* returns: no merge is in the checkout when the ref is deleted, when
\* control is back in the caller, or when the next candidate is compared
\* and staged.
C24_ResetBeforeReturn ==
  /\ (MergeAttempted /\ pc \in {"am_finally_delete", "pair_done"}) => ~merging
  /\ (MergeAttempted /\ pc = "main_catch" /\ merging)
       => attemptFailure = "final_reset"
  /\ (Len(conflictArray) > 0 /\ pc \in {"check", "am_remote_add", "am_fetch", "am_checkout"})
       => ~merging

\* C24 witness: after a conflict found in quiet mode the next candidate
\* is being staged.
C24_Witness ==
  /\ pc = "am_fetch"
  /\ payload.quiet
  /\ Len(conflictArray) = 1
  /\ ~merging

\* main() is past setup() and has neither thrown nor begun cleanup().
AfterSetupPcs ==
  AttemptPcs \cup {"get_open_prs", "check", "pair_done", "request_reviews",
                   "request_conflicting", "create_comment"}

\* C25: the temporary ref a candidate is staged into is never the
\* subject's, and the subject's temporary ref exists from the end of
\* setup until the final cleanup.
C25_CandidateRefUnique ==
  /\ pc \in AttemptPcs => TmpRef(Other.branch) # TmpRef(pullRequestBranch)
  /\ pc \in AfterSetupPcs => TmpRef(pullRequestBranch) \in refs

\* C26: a remote is added only for a branch that comes from a fork, and
\* a `git remote add` that fails (it adds no remote) is followed by the
\* fetch, for the subject in setup and for a candidate in attemptMerge.
C26_RemoteAddFailureNotFatal ==
  /\ [](pc = "setup_remote_add" => payload.isFork)
  /\ [](pc = "am_remote_add" => Other.isFork)
  /\ [][(pc = "am_remote_add" /\ remotes' = remotes) => pc' = "am_fetch"]_vars
  /\ [][(pc = "setup_remote_add" /\ remotes' = remotes)
          => pc' = "setup_fetch_pr"]_vars

\* C27: a failing delete of a temporary ref is swallowed.  After a
\* failing delete of the candidate's ref attemptMerge returns to its
\* caller with the pair's conflict data instead of throwing to main's
\* catch, and a failing delete of the subject's ref in cleanup lets no
\* error escape main.
C27_DeleteFailureSwallowed ==
  /\ attemptFailure = "delete" => pc = "pair_done"
  /\ ~escaped

\* The lines between the start marker at index s of a conflicted file
\* and the next separator: an "ours" block.
OursBlockAt(file, s) ==
  LET e == CHOOSE e \in (s + 1)..Len(file) :
             /\ StartsWith(file[e], "=======")
             /\ \A k \in (s + 1)..(e - 1) : ~StartsWith(file[k], "=======")
  IN SubSeq(file, s + 1, e - 1)

\* What block-anchor recovery emits for one block: the numbers of the
\* committed file's lines the block spans where its first line is first
\* found, when every line of the block matches there; otherwise nothing.
Anchored(file, block) ==
  IF block = <<>> \/ ~Has(file, block[1]) THEN <<>>
  ELSE
    LET first == CHOOSE p \in 1..Len(file) :
                   file[p] = block[1] /\ \A q \in 1..(p - 1) : file[q] # block[1]
    IN IF \A k \in 1..Len(block) :
            first + k - 1 <= Len(file) /\ file[first + k - 1] = block[k]
       THEN [k \in 1..Len(block) |-> first + k - 1]
       ELSE <<>>

\* The numbers emitted for the blocks that begin at index s or later.
RECURSIVE AnchoredFrom(_, _, _)
AnchoredFrom(normalFile, conflictFile, s) ==
  IF s > Len(conflictFile) THEN <<>>
  ELSE (IF StartsWith(conflictFile[s], "<<<<<<< HEAD")
        THEN Anchored(normalFile, OursBlockAt(conflictFile, s)) ELSE <<>>)
       \o AnchoredFrom(normalFile, conflictFile, s + 1)

IsMarker(line) ==
  \/ StartsWith(line, "<<<<<<<")
  \/ StartsWith(line, "=======")
  \/ StartsWith(line, ">>>>>>>")

\* C29: in both variants of the line recovery no line stored in an "ours"
\* or "theirs" block begins like a marker, and no emitted number is the
\* number, in the committed file of the checked-out side, of a line that
\* begins like a marker.
C29_MarkersStructural ==
  pc \in {"extracted", "extracted_positional"} =>
    /\ \A line \in blockLines : ~IsMarker(line)
    /\ \A k \in 1..Len(extracted) :
         extracted[k] \in 1..Len(linesFromNormalFile)
           => ~IsMarker(linesFromNormalFile[extracted[k]])

\* C29 witness: the positional variant has stored both sides of a hunk
\* and emitted a number for it.
C29_Witness ==
  /\ pc = "extracted_positional"
  /\ linesFromConflictFile = OneLineConflict.conflict
  /\ blockLines = {"ours", "theirs"}
  /\ extracted = <<2>>

\* The subject-candidate merge of this attempt signalled a conflict in
\* quiet mode.
QuietConflict == payload.quiet /\ mergeOutcome = "conflict"

\* C30: in quiet mode a signalled conflict is followed by the finally
\* block at once, without the listing of unmerged files or the reading
\* of lines; when attemptMerge returns, the hard reset and the delete of
\* the candidate's ref have run and the result is the placeholder, which
\* has a key; the pair is appended to the conflict array, which the
\* reviewer requests use; and no comment is composed or posted.
C30_QuietShortCircuit ==
  /\ [](payload.quiet => pc \notin {"am_diff", "am_extract", "create_comment"})
  /\ [](payload.quiet => comments = <<>>)
  /\ [](QuietConflict
          => pc \in {"am_finally_reset", "am_finally_delete", "pair_done", "main_catch"})
  /\ []((QuietConflict /\ pc = "pair_done")
          => /\ conflictData = Placeholder
             /\ HasKeys(conflictData)
             /\ TmpRef(Other.branch) \in deleteTargets
             /\ ~merging)
  /\ [][(QuietConflict /\ pc = "pair_done")
          => conflictArray' = Append(conflictArray, ConflictEntry(Other, Placeholder))]_vars
  /\ [](pc \in {"request_reviews", "request_conflicting"} => Len(conflictArray) > 0)

\* C30 witness: a quiet run that found a conflict has requested a review
\* and reached the end of the try block without a comment.
C30_Witness ==
  /\ pc = "cleanup"
  /\ payload.quiet
  /\ ~failed
  /\ Len(conflictArray) = 1
  /\ conflictArray[1].conflictData = Placeholder
  /\ Len(reviewCalls) > 0
  /\ comments = <<>>

\* The first lines of the maximal runs of the line numbers in `hunkLines`,
\* ascending: for each hunk with lines of the checked-out side, the
\* position of its first such line in that side's file.
RECURSIVE FirstLinesFrom(_, _, _)
FirstLinesFrom(hunkLines, n, last) ==
  IF n > last THEN <<>>
  ELSE (IF n \in hunkLines /\ (n - 1) \notin hunkLines THEN <<n>> ELSE <<>>)
       \o FirstLinesFrom(hunkLines, n + 1, last)

\* C31: the positional variant emits, for each conflict region, the
\* position s of the region's first "ours" line in the "ours" version of
\* the file plus every offset at which both sides have a line and the
\* lines differ.  In the files given here every "theirs" block is one
\* line that differs from the first "ours" line, so that is s for each
\* region with "ours" lines, and nothing else.
C31_PositionalRecovery ==
  pc = "extracted_positional" =>
    extracted = FirstLinesFrom(conflicted, 1, Len(linesFromNormalFile))

\* Conflicts were found and each is with a pull request of the subject's
\* own author.
AllBySubjectAuthor ==
  /\ Len(conflictArray) > 0
  /\ \A i \in 1..Len(conflictArray) : conflictArray[i].author = pullRequestAuthor

\* C32: when every conflicting pull request found is authored by the
\* subject's author, no reviewer is requested on any pull request, the
\* comment composer is not called and no comment is posted, whatever the
\* quiet flag.
C32_OwnConflictsAreSilent ==
  AllBySubjectAuthor
    => (reviewCalls = <<>> /\ comments = <<>> /\ pc # "create_comment")

\* C32 witness: a run with the quiet flag off found only conflicts with
\* the author's own pull requests and reached the end of the try block.
C32_Witness ==
  /\ pc = "cleanup"
  /\ ~failed
  /\ ~payload.quiet
  /\ AllBySubjectAuthor
  /\ reviewCalls = <<>>
  /\ comments = <<>>

\* main() is inside setup().
SetupPcs ==
  {"setup_config", "setup_fetch_main", "setup_remote_add", "setup_fetch_pr",
   "setup_checkout", "setup_merge_main", "setup_reset"}

\* main() is in its catch block, in cleanup() or past it.
EndPcs == {"main_catch", "cleanup", "done"}

\* C33: setup() is left either to main's catch or, with every effect of
\* its commands in place (integration branch and subject fetched, the
\* fork's remote added, the subject's ref checked out, no merge left in
\* the checkout), to the listing of candidates; until then no candidate
\* is known or staged and nothing was requested or posted; from main's
\* catch the run is marked failed and goes to cleanup(), which runs its
\* delete, and from the catch on no candidate is staged, no reviewer is
\* requested and no comment is posted.
C33_SetupFailureEndsRun ==
  /\ []((pc \in SetupPcs \cup {"main", "get_open_prs"})
          => /\ otherPullRequests = <<>>
             /\ CandidateRefs = {}
             /\ gitCommands = 0
             /\ reviewCalls = <<>>
             /\ comments = <<>>)
  /\ [](pc = "get_open_prs"
          => /\ {mainBranch, TmpRef(pullRequestBranch)} \subseteq refs
             /\ payload.isFork => pullRequestAuthor \in remotes
             /\ head = TmpRef(pullRequestBranch)
             /\ ~merging)
  /\ [][(pc \in SetupPcs /\ pc' \notin SetupPcs \cup {"get_open_prs"})
          => pc' = "main_catch"]_vars
  /\ [][pc = "main_catch" => (failed' /\ pc' = "cleanup")]_vars
  /\ [][pc = "cleanup"
          => (TmpRef(ToString(pullRequestNumber)) \in deleteTargets' /\ pc' = "done")]_vars
  /\ [][(pc \in EndPcs)
          => (pc' \in EndPcs /\ reviewCalls' = reviewCalls
              /\ comments' = comments /\ refs' \subseteq refs)]_vars

\* C33 witness: a run whose setup left its merge of the integration
\* branch in the checkout (the merge conflicted, or the reset after it
\* failed) has ended failed, after cleanup, without any candidate.
C33_Witness ==
  /\ pc = "done"
  /\ failed
  /\ merging
  /\ ~infraFailure
  /\ ~apiFailure
  /\ TmpRef(ToString(pullRequestNumber)) \in deleteTargets
  /\ CandidateRefs = {}
  /\ reviewCalls = <<>>
  /\ comments = <<>>

\* C34: when the subject is a draft, main returns without any git
\* command, hosting API call, reviewer request or comment, and without
\* running cleanup: the checkout, the refs and the remotes are those of
\* the start of the run, no ref deletion was attempted, and the run is
\* not marked failed.
C34_DraftRunTouchesNothing ==
  payload.draft =>
    /\ pc \in {"main", "done"}
    /\ refs = {} /\ remotes = {"origin"} /\ head = "HEAD" /\ ~merging
    /\ deleteTargets = {} /\ gitCommands = 0
    /\ otherPullRequests = <<>> /\ conflictArray = <<>>
    /\ reviewCalls = <<>> /\ comments = <<>>
    /\ ~infraFailure /\ ~apiFailure /\ ~failed /\ ~escaped

C34_Witness == payload.draft /\ pc = "done" /\ deleteTargets = {} /\ refs = {}

\* C35: every file path that is a key of the pair's conflict data is in
\* the filtered changed-file list of the subject and in that of the
\* candidate, and no key of any conflict data, of the pair at hand or of a
\* recorded entry, matches an excluded pattern.  The key of the quiet
\* placeholder is not a file path.
FilePaths(data) == DOMAIN data \ {PlaceholderKey}

C35_KeysWithinFilteredFiles ==
  /\ \A f \in FilePaths(conflictData) :
       Has(pullRequestFiles, f) /\ Has(otherPullRequestFiles, f)
  /\ \A f \in FilePaths(conflictData) : ~ignoreFile(f)
  /\ \A i \in 1..Len(conflictArray) :
       \A f \in FilePaths(conflictArray[i].conflictData) : ~ignoreFile(f)

\* The number of lines of the file whose text split("\n") turned into
\* `split`: the element after a final newline is not a line.
LineCount(split) ==
  IF split # <<>> /\ split[Len(split)] = "" THEN Len(split) - 1 ELSE Len(split)

\* The indexes of the conflict-start markers of a conflicted file.
StartMarkers(file) ==
  { s \in 1..Len(file) : StartsWith(file[s], "<<<<<<< HEAD") }

\* Number n is the committed file's line that line k of the block spans
\* when the block is laid on the committed file, and the block matches.
SpansAt(normalFile, block, k, n) ==
  /\ k \in 1..Len(block)
  /\ n - k + Len(block) <= Len(normalFile)
  /\ \A m \in 1..Len(block) : normalFile[n - k + m] = block[m]

\* C36: every number n that block-anchor recovery emits is a line number
\* of the committed file, 1 <= n <= its number of lines, and line n of the
\* committed file is textually the line of an "ours" block of the
\* conflicted file that corresponds to it, the block matching the
\* committed file line for line around n.
C36_EmittedWithinFileAndEqual ==
  pc = "extracted" =>
    \A i \in 1..Len(extracted) :
      LET n == extracted[i] IN
      /\ 1 <= n /\ n <= LineCount(linesFromNormalFile)
      /\ \E s \in StartMarkers(linesFromConflictFile) :
           \E k \in 1..Len(OursBlockAt(linesFromConflictFile, s)) :
             SpansAt(linesFromNormalFile, OursBlockAt(linesFromConflictFile, s), k, n)

\* C36 witness: the last line of a three-line file was emitted.
C36_Witness ==
  /\ pc = "extracted"
  /\ LineCount(linesFromNormalFile) = MaxLines
  /\ Has(extracted, MaxLines)
  /\ Len(extracted) > 1

\* Reading the text of formatLineNumbers back: String.prototype.split,
\* the pieces of `text` between the occurrences of `separator`.
RECURSIVE SplitFrom(_, _, _, _)
SplitFrom(text, separator, from, i) ==
  IF i + Len(separator) - 1 > Len(text)
  THEN <<SubSeq(text, from, Len(text))>>
  ELSE IF SubSeq(text, i, i + Len(separator) - 1) = separator
  THEN <<SubSeq(text, from, i - 1)>>
         \o SplitFrom(text, separator, i + Len(separator), i + Len(separator))
  ELSE SplitFrom(text, separator, from, i + 1)

SplitText(text, separator) == SplitFrom(text, separator, 1, 1)

\* The value of a decimal digit.
Digit(c) ==
  CASE c = "0" -> 0 [] c = "1" -> 1 [] c = "2" -> 2 [] c = "3" -> 3
    [] c = "4" -> 4 [] c = "5" -> 5 [] c = "6" -> 6 [] c = "7" -> 7
    [] c = "8" -> 8 [] c = "9" -> 9

\* The number that the digits of `text` up to index i denote.
RECURSIVE Digits(_, _)
Digits(text, i) ==
  IF i = 0 THEN 0 ELSE 10 * Digits(text, i - 1) + Digit(SubSeq(text, i, i))

\* The integer that Number.prototype.toString printed as `text`.
ParseInt(text) ==
  IF SubSeq(text, 1, 1) = "-"
  THEN 0 - Digits(SubSeq(text, 2, Len(text)), Len(text) - 1)
  ELSE Digits(text, Len(text))

\* An item "a...b" stands for a, a+1, ..., b; any other item for itself.
ExpandItem(item) ==
  LET ends == SplitText(item, "...") IN
  IF Len(ends) = 2
  THEN [k \in 1..(ParseInt(ends[2]) - ParseInt(ends[1]) + 1) |->
          ParseInt(ends[1]) + k - 1]
  ELSE <<ParseInt(item)>>

RECURSIVE ExpandItems(_)
ExpandItems(items) ==
  IF items = <<>> THEN <<>> ELSE ExpandItem(Head(items)) \o ExpandItems(Tail(items))

\* The list that a formatted text stands for; the empty text has no item.
Expand(text) == IF text = "" THEN <<>> ELSE ExpandItems(SplitText(text, ", "))

\* C37: formatLineNumbers is lossless.  For every list of integers, sorted
\* or not, with or without duplicates, expanding each "a...b" item of its
\* text into a, ..., b and keeping the other items gives the list back, in
\* order.
C37_FormatIsLossless ==
  (pc = "formatted" /\ numbers.given) => Expand(formatted) = numbers.list

\* C37 witness: an unsorted list with a duplicate and a run that passes
\* zero was formatted with a range and read back.
C37_Witness ==
  /\ pc = "formatted"
  /\ numbers.list = <<10, -1, 0, 1>>
  /\ formatted = "10, -1...1"
  /\ Expand(formatted) = numbers.list

\* The statements of main() inside the loop body of getConflictArrayData.
PairPcs ==
  {"check", "am_remote_add", "am_fetch", "am_checkout", "am_merge_main",
   "am_reset", "am_merge", "am_diff", "am_extract", "am_finally_reset",
   "am_finally_delete", "pair_done"}

\* The run made its cleanup step: the deletion of the ref named after the
\* subject's number was attempted.
CleanupExecuted == TmpRef(ToString(pullRequestNumber)) \in deleteTargets

\* C38: when every git command and every call of the hosting API returns
\* and the listing ends with an empty page, every run of main() comes to
\* its end.  The loop over the candidates stays with one candidate until
\* the pair is done and then goes on to the rest of the list, whose
\* numbers are higher, so that no candidate is checked twice.  A run for a
\* subject that is no draft reaches the cleanup step and has executed it
\* at its end, whether it is marked failed or not.
C38_EveryRunTerminates ==
  /\ <>(pc = "done")
  /\ (~payload.draft) => <>(pc = "cleanup")
  /\ []((pc = "done" /\ ~payload.draft) => CleanupExecuted)
  /\ [][(pc' = "check") => (pc \in {"get_open_prs", "pair_done"})]_vars
  /\ [][(pc \in PairPcs \ {"pair_done"} /\ pc' \in PairPcs) => (otherPullRequests' = otherPullRequests)]_vars
  /\ [][(pc = "pair_done") => (otherPullRequests' = Tail(otherPullRequests))]_vars
  /\ [][(pc = "pair_done" /\ pc' = "check") => (Head(otherPullRequests').number > Head(otherPullRequests).number)]_vars

\* C38 witness: a run listed the pull requests, checked MaxOthers
\* candidates, found each in conflict, and came to its end after cleanup.
C38_Witness ==
  /\ pc = "done"
  /\ ~failed
  /\ Len(conflictArray) = MaxOthers
  /\ CleanupExecuted
====
